---- MODULE Spec2Model ----
(***************************************************************************)
(* The scanner, the parser and the evaluator of lox0 (src/src/scanner.rs,  *)
(* parser.rs, expr.rs) as a state machine.                                 *)
(*                                                                         *)
(* A source text is a sequence of characters; a character is a one-symbol  *)
(* string.  Rust indexes the text in two ways, and the model keeps both:   *)
(* `source.chars().nth(i)` counts characters, `source.len()` and           *)
(* `&source[a..b]` count UTF-8 bytes.  EAcute stands for a character whose *)
(* UTF-8 encoding takes two bytes.                                         *)
(***************************************************************************)
EXTENDS Integers, Sequences, FiniteSets, TLC

VARIABLES
    source,     \* Scanner.source, a sequence of characters
    tokens,     \* Scanner.tokens
    start,      \* Scanner.start
    current,    \* Scanner.current
    line,       \* Scanner.line
    status,     \* "new" | "scanning" | "returned" | "panicked"
    reported,   \* what error::report printed before panicking (at most one)
    crash,      \* the kind of a panic that is not a reported error, or "none"
    results,    \* the token sequences returned by the calls of scan_tokens
    calls,      \* number of calls of scan_tokens so far
    parser,     \* the Parser: its tokens and cursor, and the outcome of expression()
    eval,       \* an expression tree and the outcome of visiting it
    printer     \* an expression tree and the text to_string gave for it

vars == <<source, tokens, start, current, line, status, reported, crash, results, calls,
          parser, eval, printer>>

---------------------------------------------------------------------------
(* Bounds of the model *)

MaxLen == 4
MaxOpsLen == 4
MaxNumLen == 5
MaxIdLen == 5
MaxCalls == 2
MaxPunctLen == 3
MaxWsLen == 4
MaxLadderLen == 5
MaxVectorLen == 3
MaxLexemes == 3
MaxNumber == 2
MaxPrinted == 3
MaxSyncLen == 3

---------------------------------------------------------------------------
(* Characters *)

NL == "\n"
Quote == "\""
EAcute == "U+00E9"
NUL == "NUL"
None == "None"

Digits == {"0", "1", "2", "3", "4", "5", "6", "7", "8", "9"}

Lower == {"a", "b", "c", "d", "e", "f", "g", "h", "i", "j", "k", "l", "m",
          "n", "o", "p", "q", "r", "s", "t", "u", "v", "w", "x", "y", "z"}

Upper == {"A", "B", "C", "D", "E", "F", "G", "H", "I", "J", "K", "L", "M",
          "N", "O", "P", "Q", "R", "S", "T", "U", "V", "W", "X", "Y", "Z"}

Alphabet == {";", "/", "1", "a", " ", NL, Quote, "@", EAcute}
OpsAlphabet == {"!", "=", "<", ">", " ", ";"}
NumAlphabet == {"1", "2", "3", ".", " "}
IdAlphabet == {"o", "r", "1", "_", " "}
PunctAlphabet ==
    {"(", ")", "{", "}", ",", ".", "-", "+", ";", "*", "/", "!", "=", "<", ">"}
WsAlphabet == {" ", "\t", "\r", NL, ";", Quote, "/"}

Sources(A, n) == UNION {[1..k -> A] : k \in 0..n}

---------------------------------------------------------------------------
(* Character and byte indexing of the source *)

Width(c) == IF c = EAcute THEN 2 ELSE 1

RECURSIVE ByteOff(_)
ByteOff(i) == IF i = 0 THEN 0 ELSE ByteOff(i - 1) + Width(source[i])

NChars == Len(source)

ByteLen == ByteOff(NChars)

CharsNth(i) == IF i < NChars THEN source[i + 1] ELSE None

IsBoundary(b) == \E i \in 0..NChars : ByteOff(i) = b

CharIdx(b) == CHOOSE i \in 0..NChars : ByteOff(i) = b

\* &source[a..b] panics unless a <= b <= len and both are character boundaries
ByteSliceOk(a, b) == a <= b /\ b <= ByteLen /\ IsBoundary(a) /\ IsBoundary(b)

\* a slice that starts one character late
ByteSliceLate(a, b) ==
    IF ByteSliceOk(a, b) THEN SubSeq(source, CharIdx(a) + 2, CharIdx(b)) ELSE <<>>

ByteSlice(a, b) ==
    IF ByteSliceOk(a, b) THEN SubSeq(source, CharIdx(a) + 1, CharIdx(b)) ELSE <<>>

---------------------------------------------------------------------------
(* Character classes and cursor predicates *)

IsDigit(c) == c \in Digits

IsAlpha(c) == c \in Lower \cup Upper \cup {"_"}

IsAlphaNumeric(c) == IsAlpha(c) \/ IsDigit(c)

IsAtEnd(cur) == cur >= ByteLen

Peek(cur) == IF IsAtEnd(cur) THEN NUL ELSE CharsNth(cur)

PeekNext(cur) == IF cur + 1 >= ByteLen THEN NUL ELSE CharsNth(cur + 1)

---------------------------------------------------------------------------
(* Token model (src/src/token.rs) *)

NoStr == <<>>

NoNum == <<0, 0>>

\* a TokenType value: the variant, and the payload of String/Identifier/Number
TT(ty, str, num) == [ty |-> ty, str |-> str, num |-> num]

Plain(ty) == TT(ty, NoStr, NoNum)

Token(tt, lexeme, ln) ==
    [ty |-> tt.ty, str |-> tt.str, num |-> tt.num, lexeme |-> lexeme, line |-> ln]

KEYWORDS == <<
    <<(<<"a", "n", "d">>), "And">>,
    <<(<<"o", "r">>), "Or">>,
    <<(<<"t", "r", "u", "e">>), "True">>,
    <<(<<"f", "a", "l", "s", "e">>), "False">>,
    <<(<<"c", "l", "a", "s", "s">>), "Class">>,
    <<(<<"s", "u", "p", "e", "r">>), "Super">>,
    <<(<<"t", "h", "i", "s">>), "This">>,
    <<(<<"v", "a", "r">>), "Var">>,
    <<(<<"f", "u", "n">>), "Fun">>,
    <<(<<"r", "e", "t", "u", "r", "n">>), "Return">>,
    <<(<<"i", "f">>), "If">>,
    <<(<<"e", "l", "s", "e">>), "Else">>,
    <<(<<"t", "h", "i", "s">>), "This">>,
    <<(<<"w", "h", "i", "l", "e">>), "While">>,
    <<(<<"f", "o", "r">>), "For">>,
    <<(<<"p", "r", "i", "n", "t">>), "Print">> >>

---------------------------------------------------------------------------
(* str::parse::<f64> on a lexeme of digits and dots.  A Number's value is   *)
(* the pair <<n, k>> standing for n / 10^k, with no trailing zero in the    *)
(* fraction, so that equal values are equal pairs.  Signs, exponents and    *)
(* the words inf/nan, which parse accepts too, need characters the lexeme   *)
(* of a number never holds.                                                 *)

DigitVal(c) ==
    CASE c = "0" -> 0 [] c = "1" -> 1 [] c = "2" -> 2 [] c = "3" -> 3
      [] c = "4" -> 4 [] c = "5" -> 5 [] c = "6" -> 6 [] c = "7" -> 7
      [] c = "8" -> 8 [] c = "9" -> 9

RECURSIVE DigitsValue(_)
DigitsValue(s) ==
    IF s = <<>> THEN 0
    ELSE DigitsValue(SubSeq(s, 1, Len(s) - 1)) * 10 + DigitVal(s[Len(s)])

RECURSIVE Normalize(_, _)
Normalize(n, k) ==
    IF k > 0 /\ n % 10 = 0 THEN Normalize(n \div 10, k - 1) ELSE <<n, k>>

DotsOf(text) == {i \in 1..Len(text) : text[i] = "."}

ParseOk(text) ==
    /\ \A i \in 1..Len(text) : text[i] \in Digits \cup {"."}
    /\ Cardinality(DotsOf(text)) <= 1
    /\ Len(text) > Cardinality(DotsOf(text))

ParseF64(text) ==
    LET dots == DotsOf(text)
        k == IF dots = {} THEN 0 ELSE Len(text) - (CHOOSE i \in dots : TRUE)
    IN  Normalize(DigitsValue(SelectSeq(text, IsDigit)), k)

---------------------------------------------------------------------------
(* Scanner (src/src/scanner.rs).  A helper that can panic returns a record  *)
(* whose out field is "ok" or the kind of panic: "unwrap" for               *)
(* Option::unwrap on None, "slice" for a byte index that is no character    *)
(* boundary, "parse" for Result::unwrap on a parse error.                   *)

\* error::report: prints the diagnostic, then panics
Report(ln, where_, message) == [line |-> ln, where_ |-> where_, message |-> message]

\* an error reported one line early
ErrorOnPreviousLine(ln, msg) == Report(ln - 1, "", msg)

\* error::error and Scanner::error
Error(ln, msg) == Report(ln, "", msg)

\* a newline that moves the line counter the wrong way
NewlineLineBackwards(ln) == ln - 1

\* '\n' => self.line += 1
NewlineLine(ln) == ln + 1

\* a match_ that reports the match and leaves the character unconsumed
MatchWithoutAdvance(cur, expected) ==
    IF IsAtEnd(cur) THEN [hit |-> FALSE, cur |-> cur, out |-> "ok"]
    ELSE IF CharsNth(cur) = None THEN [hit |-> FALSE, cur |-> cur, out |-> "unwrap"]
    ELSE [hit |-> CharsNth(cur) = expected, cur |-> cur, out |-> "ok"]

Match_(cur, expected) ==
    IF IsAtEnd(cur) THEN [hit |-> FALSE, cur |-> cur, out |-> "ok"]
    ELSE IF CharsNth(cur) = None THEN [hit |-> FALSE, cur |-> cur, out |-> "unwrap"]
    ELSE IF CharsNth(cur) # expected THEN [hit |-> FALSE, cur |-> cur, out |-> "ok"]
    ELSE [hit |-> TRUE, cur |-> cur + 1, out |-> "ok"]

\* while self.peek() != '\n' && !self.is_at_end() { self.advance(); }
RECURSIVE CommentLoop(_)
CommentLoop(cur) ==
    LET c == Peek(cur)
    IN  IF c = None THEN [cur |-> cur, out |-> "unwrap"]
        ELSE IF c # NL /\ ~IsAtEnd(cur) THEN CommentLoop(cur + 1)
        ELSE [cur |-> cur, out |-> "ok"]

\* while self.is_digit(self.peek()) { self.advance(); }
RECURSIVE DigitLoop(_)
DigitLoop(cur) ==
    LET c == Peek(cur)
    IN  IF c = None THEN [cur |-> cur, out |-> "unwrap"]
        ELSE IF IsDigit(c) THEN DigitLoop(cur + 1)
        ELSE [cur |-> cur, out |-> "ok"]

\* while self.is_alpha_numeric(self.peek()) { self.advance(); }
RECURSIVE AlphaNumericLoop(_)
AlphaNumericLoop(cur) ==
    LET c == Peek(cur)
    IN  IF c = None THEN [cur |-> cur, out |-> "unwrap"]
        ELSE IF IsAlphaNumeric(c) THEN AlphaNumericLoop(cur + 1)
        ELSE [cur |-> cur, out |-> "ok"]

\* the loop of Scanner::string, counting the newlines it passes
RECURSIVE StringLoop(_, _)
StringLoop(cur, ln) ==
    LET c == Peek(cur)
    IN  IF c = None THEN [cur |-> cur, line |-> ln, out |-> "unwrap"]
        ELSE IF c # Quote /\ ~IsAtEnd(cur)
             THEN StringLoop(cur + 1, IF c = NL THEN NewlineLine(ln) ELSE ln)
        ELSE [cur |-> cur, line |-> ln, out |-> "ok"]

\* The result of a piece of scan_token: the cursor and line it leaves, and
\* out = "token" (tt is the TokenType to add), "skip" (return without a token),
\* "error" (self.error(msg)), or the kind of another panic.
Res(cur, ln, out, msg, tt) ==
    [cur |-> cur, line |-> ln, out |-> out, msg |-> msg, tt |-> tt]

Tok(cur, ln, tt) == Res(cur, ln, "token", "", tt)

Skip(cur, ln) == Res(cur, ln, "skip", "", Plain("none"))

Fail(cur, ln, msg) == Res(cur, ln, "error", msg, Plain("none"))

Panic(cur, ln, kind) == Res(cur, ln, kind, "", Plain("none"))

\* a lookup that takes a word for a keyword when it only starts with one
KeywordPrefixIndex(text) ==
    LET hits == {i \in 1..Len(KEYWORDS) :
                    /\ Len(KEYWORDS[i][1]) <= Len(text)
                    /\ SubSeq(text, 1, Len(KEYWORDS[i][1])) = KEYWORDS[i][1]}
    IN  IF hits = {} THEN 0 ELSE CHOOSE i \in hits : \A j \in hits : i <= j

\* KEYWORDS.iter().find(|(k, _)| k == &text)
KeywordIndex(text) ==
    LET hits == {i \in 1..Len(KEYWORDS) : KEYWORDS[i][1] = text}
    IN  IF hits = {} THEN 0 ELSE CHOOSE i \in hits : \A j \in hits : i <= j

\* Scanner::identifier, entered with the first character consumed
Identifier(st, cur, ln) ==
    LET l == AlphaNumericLoop(cur)
        text == ByteSlice(st, l.cur)
        k == KeywordIndex(text)
    IN  IF l.out # "ok" THEN Panic(l.cur, ln, l.out)
        ELSE IF ~ByteSliceOk(st, l.cur) THEN Panic(l.cur, ln, "slice")
        ELSE IF k # 0 THEN Tok(l.cur, ln, Plain(KEYWORDS[k][2]))
        ELSE Tok(l.cur, ln, TT("Identifier", text, NoNum))

\* a fraction that takes the "." without looking at what follows it
FractionWithoutLookahead(cur) ==
    IF Peek(cur) # "."  THEN [cur |-> cur, out |-> "ok"] ELSE DigitLoop(cur + 1)

\* the optional fraction of Scanner::number, entered after the first digit run
Fraction(cur) ==
    IF Peek(cur) # "."  THEN [cur |-> cur, out |-> "ok"]
    ELSE IF PeekNext(cur) = None THEN [cur |-> cur, out |-> "unwrap"]
    ELSE IF IsDigit(PeekNext(cur)) THEN DigitLoop(cur + 1)
    ELSE [cur |-> cur, out |-> "ok"]

\* Scanner::number, entered with the first digit consumed
Number(st, cur, ln) ==
    LET l == DigitLoop(cur)
        f == Fraction(l.cur)
        text == ByteSlice(st, f.cur)
    IN  IF l.out # "ok" THEN Panic(l.cur, ln, l.out)
        ELSE IF f.out # "ok" THEN Panic(f.cur, ln, f.out)
        ELSE IF ~ByteSliceOk(st, f.cur) THEN Panic(f.cur, ln, "slice")
        ELSE IF ~ParseOk(text) THEN Panic(f.cur, ln, "parse")
        ELSE Tok(f.cur, ln, TT("Number", NoStr, ParseF64(text)))

\* Scanner::string, entered with the opening quote consumed
String(st, cur, ln) ==
    LET l == StringLoop(cur, ln)
    IN  IF l.out # "ok" THEN Panic(l.cur, l.line, l.out)
        ELSE IF IsAtEnd(l.cur) THEN Fail(l.cur, l.line, "Unterminated string.")
        ELSE IF CharsNth(l.cur) = None THEN Panic(l.cur, l.line, "unwrap")
        ELSE IF ~ByteSliceOk(st + 1, l.cur) THEN Panic(l.cur + 1, l.line, "slice")
        ELSE Tok(l.cur + 1, l.line, TT("String", ByteSlice(st + 1, l.cur), NoNum))

SingleCharSwapped(c) ==
    CASE c = "(" -> "LeftParen" [] c = ")" -> "RightParen"
      [] c = "{" -> "LeftBrace" [] c = "}" -> "RightBrace"
      [] c = "," -> "Comma" [] c = "." -> "Dot" [] c = "-" -> "Plus"
      [] c = "+" -> "Minus" [] c = ";" -> "Semicolon" [] c = "*" -> "Star"

\* the single-character tokens of scan_token
SingleChar(c) ==
    CASE c = "(" -> "LeftParen" [] c = ")" -> "RightParen"
      [] c = "{" -> "LeftBrace" [] c = "}" -> "RightBrace"
      [] c = "," -> "Comma" [] c = "." -> "Dot" [] c = "-" -> "Minus"
      [] c = "+" -> "Plus" [] c = ";" -> "Semicolon" [] c = "*" -> "Star"

SingleChars == {"(", ")", "{", "}", ",", ".", "-", "+", ";", "*"}

\* the arms '!' '=' '<' '>' of scan_token: the token with and without '='
OneChar(c) ==
    CASE c = "!" -> "Bang" [] c = "=" -> "Equal" [] c = "<" -> "Less" [] c = ">" -> "Greater"

TwoChar(c) ==
    CASE c = "!" -> "BangEqual" [] c = "=" -> "EqualEqual"
      [] c = "<" -> "LessEqual" [] c = ">" -> "GreaterEqual"

OperatorChars == {"!", "=", "<", ">"}

Operator(c, cur, ln) ==
    LET m == Match_(cur, "=")
    IN  IF m.out # "ok" THEN Panic(m.cur, ln, m.out)
        ELSE Tok(m.cur, ln, Plain(IF m.hit THEN TwoChar(c) ELSE OneChar(c)))

\* the arm '/' of scan_token
SlashOrComment(cur, ln) ==
    LET m == Match_(cur, "/")
        l == CommentLoop(m.cur)
    IN  IF m.out # "ok" THEN Panic(m.cur, ln, m.out)
        ELSE IF ~m.hit THEN Tok(m.cur, ln, Plain("Slash"))
        ELSE IF l.out # "ok" THEN Panic(l.cur, ln, l.out)
        ELSE Skip(l.cur, ln)

\* Scanner::scan_token up to add_token, entered with start = current = st
ScanTokenBody(st, ln) ==
    LET c == CharsNth(st)
        cur == st + 1
    IN  IF c = None THEN Panic(st, ln, "unwrap")
        ELSE IF c \in SingleChars THEN Tok(cur, ln, Plain(SingleChar(c)))
        ELSE IF c \in OperatorChars THEN Operator(c, cur, ln)
        ELSE IF c = "/" THEN SlashOrComment(cur, ln)
        ELSE IF c \in {" ", "\r", "\t"} THEN Skip(cur, ln)
        ELSE IF c = NL THEN Skip(cur, NewlineLine(ln))
        ELSE IF c = Quote THEN String(st, cur, ln)
        ELSE IF IsDigit(c) THEN Number(st, cur, ln)
        ELSE IF IsAlpha(c) THEN Identifier(st, cur, ln)
        ELSE Fail(cur, ln, "Unexpected character.")

\* Scanner::add_token: the lexeme is &source[start..current]
AddToken(st, r) ==
    IF ByteSliceOk(st, r.cur)
    THEN [r EXCEPT !.out = "added"]
    ELSE Panic(r.cur, r.line, "slice")

\* Scanner::scan_token
ScanTokenResult(st, ln) ==
    LET r == ScanTokenBody(st, ln)
    IN  IF r.out = "token" THEN AddToken(st, r) ELSE r

---------------------------------------------------------------------------
(* Expression trees (src/src/expr.rs) *)

\* Option::None where a TokenType is expected
NoneTT == Plain("None")

\* TokenType::Bool(b) and TokenType::Nil, the values the parser and the
\* evaluator build
BoolTT(b) ==
    TT("Bool", IF b THEN <<"t", "r", "u", "e">> ELSE <<"f", "a", "l", "s", "e">>, NoNum)

NilTT == Plain("Nil")

\* a node: its variant, its operator or literal value, its children
Node(kind, tt, kids) == [kind |-> kind, tt |-> tt, kids |-> kids]

NoExpr == Node("None", NoneTT, <<>>)

LiteralBoxed(tt) == Node("Literal", tt, <<>>)

GroupingBoxed(e) == Node("Grouping", NoneTT, <<e>>)

UnaryBoxed(op, rhs) == Node("Unary", op, <<rhs>>)

BinaryBoxed(lhs, op, rhs) == Node("Binary", op, <<lhs, rhs>>)

---------------------------------------------------------------------------
(* Printing (src/src/print.rs); a printed text is a sequence of characters *)

DigitChar(d) ==
    CASE d = 0 -> "0" [] d = 1 -> "1" [] d = 2 -> "2" [] d = 3 -> "3" [] d = 4 -> "4"
      [] d = 5 -> "5" [] d = 6 -> "6" [] d = 7 -> "7" [] d = 8 -> "8" [] d = 9 -> "9"

RECURSIVE NatToString(_)
NatToString(n) ==
    IF n < 10 THEN <<DigitChar(n)>>
    ELSE Append(NatToString(n \div 10), DigitChar(n % 10))

\* the characters of the texts that are reported: the empty location and
\* the two messages of the scanner
CharsOf(text) ==
    CASE text = "" -> <<>>
      [] text = "Unexpected character." ->
            <<"U", "n", "e", "x", "p", "e", "c", "t", "e", "d", " ", "c", "h", "a", "r", "a", "c", "t", "e", "r", ".">>
      [] text = "Unterminated string." ->
            <<"U", "n", "t", "e", "r", "m", "i", "n", "a", "t", "e", "d", " ", "s", "t", "r", "i", "n", "g", ".">>

\* error::report: eprintln!("[line {line}] Error {where_}: {message}")
Eprintln(ln, where_, message) ==
    <<"[", "l", "i", "n", "e", " ">> \o NatToString(ln) \o <<"]", " ", "E", "r", "r", "o", "r", " ">>
        \o CharsOf(where_) \o <<":", " ">> \o CharsOf(message)

RECURSIVE Pow10(_)
Pow10(k) == IF k = 0 THEN 1 ELSE 10 * Pow10(k - 1)

\* the last k digits of n, with leading zeros
RECURSIVE FractionDigits(_, _)
FractionDigits(n, k) ==
    IF k = 0 THEN <<>>
    ELSE Append(FractionDigits(n \div 10, k - 1), DigitChar(n % 10))

\* f64::to_string of the decimal n / 10^k: no fraction part when k = 0
F64ToString(num) ==
    LET a == IF num[1] < 0 THEN -num[1] ELSE num[1]
        k == num[2]
        whole == NatToString(a \div Pow10(k))
        sign == IF num[1] < 0 THEN <<"-">> ELSE <<>>
    IN  IF k = 0 THEN sign \o whole
        ELSE sign \o whole \o <<".">> \o FractionDigits(a % Pow10(k), k)

\* Display for TokenType
DisplayTokenType(tt) ==
    CASE tt.ty \in {"Identifier", "String"} -> tt.str
      [] tt.ty = "Number" -> F64ToString(tt.num)
      [] tt.ty = "Bool" -> tt.str
      [] tt.ty = "LeftParen" -> <<"(">>
      [] tt.ty = "RightParen" -> <<")">>
      [] tt.ty = "LeftBrace" -> <<"{">>
      [] tt.ty = "RightBrace" -> <<"}">>
      [] tt.ty = "Comma" -> <<",">>
      [] tt.ty = "Dot" -> <<".">>
      [] tt.ty = "Semicolon" -> <<";">>
      [] tt.ty = "Minus" -> <<"-">>
      [] tt.ty = "Plus" -> <<"+">>
      [] tt.ty = "Slash" -> <<"/">>
      [] tt.ty = "Star" -> <<"*">>
      [] tt.ty = "Bang" -> <<"!">>
      [] tt.ty = "BangEqual" -> <<"!", "=">>
      [] tt.ty = "Equal" -> <<"=">>
      [] tt.ty = "EqualEqual" -> <<"=", "=">>
      [] tt.ty = "Greater" -> <<">">>
      [] tt.ty = "GreaterEqual" -> <<">", "=">>
      [] tt.ty = "Less" -> <<"<">>
      [] tt.ty = "LessEqual" -> <<"<", "=">>
      [] tt.ty = "And" -> <<"a", "n", "d">>
      [] tt.ty = "Or" -> <<"o", "r">>
      [] tt.ty = "True" -> <<"t", "r", "u", "e">>
      [] tt.ty = "False" -> <<"f", "a", "l", "s", "e">>
      [] tt.ty = "Class" -> <<"c", "l", "a", "s", "s">>
      [] tt.ty = "Super" -> <<"s", "u", "p", "e", "r">>
      [] tt.ty = "This" -> <<"t", "h", "i", "s">>
      [] tt.ty = "Var" -> <<"v", "a", "r">>
      [] tt.ty = "Fun" -> <<"f", "u", "n">>
      [] tt.ty = "Return" -> <<"r", "e", "t", "u", "r", "n">>
      [] tt.ty = "If" -> <<"i", "f">>
      [] tt.ty = "Else" -> <<"e", "l", "s", "e">>
      [] tt.ty = "While" -> <<"w", "h", "i", "l", "e">>
      [] tt.ty = "For" -> <<"f", "o", "r">>
      [] tt.ty = "Print" -> <<"p", "r", "i", "n", "t">>
      [] tt.ty = "EOF" -> <<"E", "O", "F">>

\* Display for Literal, Grouping, Unary and Binary
RECURSIVE DisplayExpr(_)

\* a printer that leaves out the parentheses of Binary
DisplayExprBare(e) ==
    CASE e.kind = "Literal" -> DisplayTokenType(e.tt)
      [] e.kind = "Grouping" ->
            <<"(", "g", "r", "o", "u", "p", " ">> \o DisplayExpr(e.kids[1]) \o <<")">>
      [] e.kind = "Unary" ->
            <<"(">> \o DisplayTokenType(e.tt) \o <<" ">> \o DisplayExpr(e.kids[1]) \o <<")">>
      [] e.kind = "Binary" ->
            DisplayTokenType(e.tt) \o <<" ">> \o DisplayExpr(e.kids[1])
                \o <<" ">> \o DisplayExpr(e.kids[2])

DisplayExpr(e) ==
    CASE e.kind = "Literal" -> DisplayTokenType(e.tt)
      [] e.kind = "Grouping" ->
            <<"(", "g", "r", "o", "u", "p", " ">> \o DisplayExpr(e.kids[1]) \o <<")">>
      [] e.kind = "Unary" ->
            <<"(">> \o DisplayTokenType(e.tt) \o <<" ">> \o DisplayExpr(e.kids[1]) \o <<")">>
      [] e.kind = "Binary" ->
            <<"(">> \o DisplayTokenType(e.tt) \o <<" ">> \o DisplayExpr(e.kids[1])
                \o <<" ">> \o DisplayExpr(e.kids[2]) \o <<")">>

\* no tree to print yet
NoPrinter == [expr |-> NoExpr, status |-> "absent", text |-> <<>>]

---------------------------------------------------------------------------
(* The parser (src/src/parser.rs), over the token vector parser.tokens *)

NoParser ==
    [tokens |-> <<>>, current |-> 0, status |-> "absent", expr |-> NoExpr,
     crash |-> "none", at |-> NoneTT, msg |-> ""]

\* Parser::peek: self.tokens.get(self.current)
ParserPeek(cur) ==
    IF cur < Len(parser.tokens) THEN parser.tokens[cur + 1] ELSE NoneTT

\* Parser::previous: self.tokens.get(self.current - 1), read after an advance
ParserPrevious(cur) ==
    IF cur >= 1 /\ cur - 1 < Len(parser.tokens) THEN parser.tokens[cur] ELSE NoneTT

\* Parser::is_at_end: false when the cursor is past the vector
ParserIsAtEnd(cur) == ParserPeek(cur) = Plain("EOF")

\* Parser::check
ParserCheck(cur, ty) ==
    IF ParserIsAtEnd(cur) THEN FALSE ELSE ParserPeek(cur) = ty

\* Parser::advance, the cursor after it
ParserAdvance(cur) == IF ~ParserIsAtEnd(cur) THEN cur + 1 ELSE cur

\* Parser::match_: the first of the types that the current token is
ParserMatch(cur, types) ==
    IF \E ty \in types : ParserCheck(cur, ty)
    THEN [hit |-> TRUE, cur |-> ParserAdvance(cur)]
    ELSE [hit |-> FALSE, cur |-> cur]

\* TokenType::is_literal: the literal-bearing tokens, number and string
IsLiteralToken(tt) == tt.ty \in {"Number", "String"}

\* Parser::is_literal
IsLiteral(cur) ==
    IF ParserIsAtEnd(cur) THEN [hit |-> FALSE, cur |-> cur]
    ELSE IF ParserPeek(cur) # NoneTT /\ IsLiteralToken(ParserPeek(cur))
    THEN [hit |-> TRUE, cur |-> ParserAdvance(cur)]
    ELSE [hit |-> FALSE, cur |-> cur]

\* the outcome of a parsing function: a tree and the cursor after it, or a panic
POk(cur, e) == [out |-> "ok", cur |-> cur, expr |-> e, at |-> NoneTT, msg |-> ""]

PPanic(out, cur, at, msg) ==
    [out |-> out, cur |-> cur, expr |-> NoExpr, at |-> at, msg |-> msg]

\* Parser::error: panic!("parser error at {at_token:?} {msg}")
ParserError(cur, at, msg) == PPanic("parser error", cur, at, msg)

ConsumeWithoutCheck(cur, ty, msg) == POk(ParserAdvance(cur), NoExpr)

\* Parser::consume
ParserConsume(cur, ty, msg) ==
    IF ParserCheck(cur, ty) THEN POk(ParserAdvance(cur), NoExpr)
    ELSE ParserError(cur, ParserPeek(cur), msg)

RECURSIVE Expression(_), Equality(_), EqualityLoop(_, _), Comparison(_),
          ComparisonLoop(_, _), Term(_), TermLoop(_, _), Factor(_),
          FactorLoop(_, _), UnaryExpr(_), Primary(_)

\* the element of a one-element set; binding a call's result as the element
\* of such a set evaluates the call once, however often the result is read
The(S) == CHOOSE x \in S : TRUE

\* Parser::primary
Primary(cur) ==
    LET lit == IsLiteral(cur)
    IN  IF ParserMatch(cur, {Plain("False")}).hit THEN POk(cur + 1, LiteralBoxed(BoolTT(FALSE)))
        ELSE IF ParserMatch(cur, {Plain("True")}).hit THEN POk(cur + 1, LiteralBoxed(BoolTT(TRUE)))
        ELSE IF ParserMatch(cur, {Plain("Nil")}).hit THEN POk(cur + 1, LiteralBoxed(NilTT))
        ELSE IF lit.hit THEN POk(lit.cur, LiteralBoxed(ParserPrevious(lit.cur)))
        ELSE IF ParserMatch(cur, {Plain("LeftParen")}).hit
        THEN The({ LET close == ParserConsume(inner.cur, Plain("RightParen"),
                                              "Expect ')' after expression.")
                   IN  IF inner.out # "ok" THEN inner
                       ELSE IF close.out # "ok" THEN close
                       ELSE POk(close.cur, GroupingBoxed(inner.expr))
                   : inner \in {Expression(cur + 1)} })
        ELSE PPanic("unreachable", cur, NoneTT, "maybe? or just compiler/parser error")

\* Parser::unary
UnaryExpr(cur) ==
    LET m == ParserMatch(cur, {Plain("Bang"), Plain("Minus")})
    IN  IF ~m.hit THEN Primary(cur)
        ELSE The({ IF right.out # "ok" THEN right
                   ELSE POk(right.cur, UnaryBoxed(ParserPrevious(m.cur), right.expr))
                   : right \in {UnaryExpr(m.cur)} })

FactorLoopOverTerm(e, cur) ==
    LET m == ParserMatch(cur, {Plain("Slash"), Plain("Star")})
    IN  IF ~m.hit THEN POk(cur, e)
        ELSE The({ IF right.out # "ok" THEN right
                   ELSE FactorLoop(BinaryBoxed(e, ParserPrevious(m.cur), right.expr), right.cur)
                   : right \in {Term(m.cur)} })

\* Parser::factor: the while loop, entered with the tree built so far
FactorLoop(e, cur) ==
    LET m == ParserMatch(cur, {Plain("Slash"), Plain("Star")})
    IN  IF ~m.hit THEN POk(cur, e)
        ELSE The({ IF right.out # "ok" THEN right
                   ELSE FactorLoop(BinaryBoxed(e, ParserPrevious(m.cur), right.expr), right.cur)
                   : right \in {UnaryExpr(m.cur)} })

Factor(cur) ==
    The({ IF left.out # "ok" THEN left ELSE FactorLoop(left.expr, left.cur)
          : left \in {UnaryExpr(cur)} })

TermLoopRightNested(e, cur) ==
    LET m == ParserMatch(cur, {Plain("Minus"), Plain("Plus")})
    IN  IF ~m.hit THEN POk(cur, e)
        ELSE The({ IF right.out # "ok" THEN right
                   ELSE POk(right.cur, BinaryBoxed(e, ParserPrevious(m.cur), right.expr))
                   : right \in {Term(m.cur)} })

\* a term that stops before its first operator
TermLoopNever(e, cur) == POk(cur, e)

\* Parser::term
TermLoop(e, cur) ==
    LET m == ParserMatch(cur, {Plain("Minus"), Plain("Plus")})
    IN  IF ~m.hit THEN POk(cur, e)
        ELSE The({ IF right.out # "ok" THEN right
                   ELSE TermLoop(BinaryBoxed(e, ParserPrevious(m.cur), right.expr), right.cur)
                   : right \in {Factor(m.cur)} })

Term(cur) ==
    The({ IF left.out # "ok" THEN left ELSE TermLoop(left.expr, left.cur)
          : left \in {Factor(cur)} })

\* Parser::comparison
ComparisonLoop(e, cur) ==
    LET m == ParserMatch(cur, {Plain("Greater"), Plain("GreaterEqual"),
                               Plain("Less"), Plain("LessEqual")})
    IN  IF ~m.hit THEN POk(cur, e)
        ELSE The({ IF right.out # "ok" THEN right
                   ELSE ComparisonLoop(BinaryBoxed(e, ParserPrevious(m.cur), right.expr),
                                       right.cur)
                   : right \in {Term(m.cur)} })

Comparison(cur) ==
    The({ IF left.out # "ok" THEN left ELSE ComparisonLoop(left.expr, left.cur)
          : left \in {Term(cur)} })

\* Parser::equality
EqualityLoop(e, cur) ==
    LET m == ParserMatch(cur, {Plain("BangEqual"), Plain("EqualEqual")})
    IN  IF ~m.hit THEN POk(cur, e)
        ELSE The({ IF right.out # "ok" THEN right
                   ELSE EqualityLoop(BinaryBoxed(e, ParserPrevious(m.cur), right.expr),
                                     right.cur)
                   : right \in {Comparison(m.cur)} })

Equality(cur) ==
    The({ IF left.out # "ok" THEN left ELSE EqualityLoop(left.expr, left.cur)
          : left \in {Comparison(cur)} })

\* Parser::expression
Expression(cur) == Equality(cur)

\* Parser::previous computes self.current - 1 on a usize: at cursor 0 the
\* subtraction overflows
PreviousOverflows(cur) == cur = 0

\* Parser::advance as synchronize calls it, the value it returns dropped:
\* the cursor after it, and the read of previous that ends it.  With
\* overflow checks (a debug build) the overflowing subtraction panics;
\* without them it wraps, get finds no token and the call returns None.
AdvanceAndRead(cur, checked) ==
    The({ IF PreviousOverflows(c) /\ checked
          THEN PPanic("overflow", c, NoneTT, "")
          ELSE POk(c, NoExpr) : c \in {ParserAdvance(cur)} })

\* the token types at which synchronize stops: the start of a statement
StatementStarts == {"Class", "Fun", "Var", "For", "If", "While", "Print", "Return"}

\* the while loop of Parser::synchronize
RECURSIVE SynchronizeLoop(_, _)
SynchronizeLoop(cur, checked) ==
    IF ParserIsAtEnd(cur) THEN POk(cur, NoExpr)
    ELSE IF PreviousOverflows(cur) /\ checked THEN PPanic("overflow", cur, NoneTT, "")
    ELSE IF ParserPrevious(cur) = Plain("Semicolon") THEN POk(cur, NoExpr)
    ELSE IF ParserPeek(cur).ty \in StatementStarts THEN POk(cur, NoExpr)
    ELSE The({ IF a.out = "ok" THEN SynchronizeLoop(a.cur, checked) ELSE a :
                   a \in {AdvanceAndRead(cur, checked)} })

\* Parser::synchronize
Synchronize(cur, checked) ==
    The({ IF a.out = "ok" THEN SynchronizeLoop(a.cur, checked) ELSE a :
              a \in {AdvanceAndRead(cur, checked)} })

---------------------------------------------------------------------------
(* Evaluation (src/src/expr.rs) *)

NoEval == [expr |-> NoExpr, status |-> "absent", value |-> NoneTT]

\* f64 values.  A finite value keeps the pair of Number: <<n, k>> with
\* k >= 0 is n / 10^k; a quotient with no finite decimal expansion is
\* <<p, -q>>, the fraction p / q in lowest terms.  The values division by
\* zero yields carry their name in place of the pair.
Infinity == TT("Number", <<"inf">>, NoNum)

NegInfinity == TT("Number", <<"-inf">>, NoNum)

NaN == TT("Number", <<"NaN">>, NoNum)

IsFinite(v) == v.str = NoStr

Abs(n) == IF n < 0 THEN -n ELSE n

RECURSIVE GCD(_, _)
GCD(a, b) == IF b = 0 THEN a ELSE GCD(b, a % b)

\* numerator and denominator of a finite value
Ratio(v) ==
    IF v.num[2] >= 0 THEN <<v.num[1], Pow10(v.num[2])>> ELSE <<v.num[1], -v.num[2]>>

RECURSIVE Without(_, _)
Without(q, f) == IF q % f = 0 THEN Without(q \div f, f) ELSE q

RECURSIVE ScaleOf(_, _)
ScaleOf(q, k) == IF Pow10(k) % q = 0 THEN k ELSE ScaleOf(q, k + 1)

\* the finite value p / q, q > 0
Finite(p, q) ==
    LET g == GCD(Abs(p), q)
        n == p \div g
        d == q \div g
        k == ScaleOf(d, 0)
    IN  IF Without(Without(d, 2), 5) = 1
        THEN TT("Number", NoStr, Normalize(n * (Pow10(k) \div d), k))
        ELSE TT("Number", NoStr, <<n, -d>>)

\* l + r, l - r, l * r and l / r on finite operands
F64Add(l, r) ==
    Finite(Ratio(l)[1] * Ratio(r)[2] + Ratio(r)[1] * Ratio(l)[2], Ratio(l)[2] * Ratio(r)[2])

F64Sub(l, r) ==
    Finite(Ratio(l)[1] * Ratio(r)[2] - Ratio(r)[1] * Ratio(l)[2], Ratio(l)[2] * Ratio(r)[2])

F64Mul(l, r) == Finite(Ratio(l)[1] * Ratio(r)[1], Ratio(l)[2] * Ratio(r)[2])

\* division by zero follows IEEE 754: no panic, an infinity or NaN
F64Div(l, r) ==
    LET p == Ratio(l)[1] * Ratio(r)[2]
        q == Ratio(l)[2] * Ratio(r)[1]
    IN  IF q = 0 THEN (IF p > 0 THEN Infinity ELSE IF p < 0 THEN NegInfinity ELSE NaN)
        ELSE IF q < 0 THEN Finite(-p, -q)
        ELSE Finite(p, q)

\* l > r on finite operands
F64Greater(l, r) == Ratio(l)[1] * Ratio(r)[2] > Ratio(r)[1] * Ratio(l)[2]

\* -n on any value
F64Neg(v) ==
    IF IsFinite(v) THEN TT("Number", NoStr, <<-v.num[1], v.num[2]>>)
    ELSE IF v = Infinity THEN NegInfinity
    ELSE IF v = NegInfinity THEN Infinity
    ELSE NaN

\* TokenType::is_truthy: only Nil and Bool(false) are falsy
IsTruthy(v) == ~(v = NilTT \/ v = BoolTT(FALSE))

\* TokenType::is_equal: values of different kinds are unequal, values of
\* one kind compare by value
IsEqual(l, r) == l.ty = r.ty /\ l = r

EitherNumber(l, r) == l.ty = "Number" \/ r.ty = "Number"

\* the patterns (Some(TokenType::Number(l)), op, Some(TokenType::Number(r)))
BothNumbers(l, r) == l.ty = "Number" /\ r.ty = "Number"

ConcatReversed(s, u) == u \o s

\* s + &u
Concat(s, u) == s \o u

\* equality guarded as the comparisons are: only numbers are compared
BinaryVisitEqualityOnNumbers(left, op, right) ==
    IF left = NoneTT \/ right = NoneTT THEN NoneTT
    ELSE CASE op.ty = "Greater" /\ BothNumbers(left, right) -> BoolTT(F64Greater(left, right))
           [] op.ty = "GreaterEqual" /\ BothNumbers(left, right) -> BoolTT(~F64Greater(right, left))
           [] op.ty = "Less" /\ BothNumbers(left, right) -> BoolTT(F64Greater(right, left))
           [] op.ty = "LessEqual" /\ BothNumbers(left, right) -> BoolTT(~F64Greater(left, right))
           [] op.ty = "BangEqual" /\ BothNumbers(left, right) -> BoolTT(~IsEqual(left, right))
           [] op.ty = "EqualEqual" /\ BothNumbers(left, right) -> BoolTT(IsEqual(left, right))
           [] op.ty = "Minus" /\ BothNumbers(left, right) -> F64Sub(left, right)
           [] op.ty = "Slash" /\ BothNumbers(left, right) -> F64Div(left, right)
           [] op.ty = "Star" /\ BothNumbers(left, right) -> F64Mul(left, right)
           [] op.ty = "Plus" /\ BothNumbers(left, right) -> F64Add(left, right)
           [] op.ty = "Plus" /\ left.ty = "String" /\ right.ty = "String" ->
                 TT("String", Concat(left.str, right.str), NoNum)
           [] OTHER -> NoneTT

\* Binary::visit, on the values of the two operands
BinaryVisit(left, op, right) ==
    IF left = NoneTT \/ right = NoneTT THEN NoneTT
    ELSE CASE op.ty = "Greater" /\ BothNumbers(left, right) -> BoolTT(F64Greater(left, right))
           [] op.ty = "GreaterEqual" /\ BothNumbers(left, right) -> BoolTT(~F64Greater(right, left))
           [] op.ty = "Less" /\ BothNumbers(left, right) -> BoolTT(F64Greater(right, left))
           [] op.ty = "LessEqual" /\ BothNumbers(left, right) -> BoolTT(~F64Greater(left, right))
           [] op.ty = "BangEqual" -> BoolTT(~IsEqual(left, right))
           [] op.ty = "EqualEqual" -> BoolTT(IsEqual(left, right))
           [] op.ty = "Minus" /\ BothNumbers(left, right) -> F64Sub(left, right)
           [] op.ty = "Slash" /\ BothNumbers(left, right) -> F64Div(left, right)
           [] op.ty = "Star" /\ BothNumbers(left, right) -> F64Mul(left, right)
           [] op.ty = "Plus" /\ BothNumbers(left, right) -> F64Add(left, right)
           [] op.ty = "Plus" /\ left.ty = "String" /\ right.ty = "String" ->
                 TT("String", Concat(left.str, right.str), NoNum)
           [] OTHER -> NoneTT

UnaryVisitBoolOnly(op, right) ==
    CASE op.ty = "Bang" /\ right.ty = "Bool" -> BoolTT(~IsTruthy(right))
      [] op.ty = "Minus" /\ right.ty = "Number" -> F64Neg(right)
      [] OTHER -> NoneTT

\* a ! that takes the failure of its operand for a value
UnaryVisitBangOnNone(op, right) ==
    CASE op.ty = "Bang" -> BoolTT(~IsTruthy(right))
      [] op.ty = "Minus" /\ right.ty = "Number" -> F64Neg(right)
      [] OTHER -> NoneTT

\* Unary::visit, on the value of the operand
UnaryVisit(op, right) ==
    CASE op.ty = "Bang" /\ right # NoneTT -> BoolTT(~IsTruthy(right))
      [] op.ty = "Minus" /\ right.ty = "Number" -> F64Neg(right)
      [] OTHER -> NoneTT

\* Expr::visit: Some(value), or None
RECURSIVE Visit(_)
Visit(e) ==
    CASE e.kind = "Literal" -> e.tt
      [] e.kind = "Grouping" -> Visit(e.kids[1])
      [] e.kind = "Unary" -> UnaryVisit(e.tt, Visit(e.kids[1]))
      [] e.kind = "Binary" -> BinaryVisit(Visit(e.kids[1]), e.tt, Visit(e.kids[2]))

---------------------------------------------------------------------------
(* The state machine *)

\* Scanner::new
InitFrom(S) ==
    /\ source \in S
    /\ tokens = <<>>
    /\ start = 0
    /\ current = 0
    /\ line = 1
    /\ status = "new"
    /\ reported = <<>>
    /\ crash = "none"
    /\ results = <<>>
    /\ calls = 0

InitOver(A, n) == InitFrom(Sources(A, n))

\* Scanner::new, with no parser and no evaluation yet
InitScanner(A, n) ==
    InitOver(A, n) /\ parser = NoParser /\ eval = NoEval /\ printer = NoPrinter

Init == InitScanner(Alphabet, MaxLen)

\* a call of scan_tokens on the scanner: the first, or one after a return
CallScanTokens ==
    /\ status \in {"new", "returned"}
    /\ calls < MaxCalls
    /\ status' = "scanning"
    /\ calls' = calls + 1
    /\ UNCHANGED <<source, tokens, start, current, line, reported, crash, results>>
    /\ UNCHANGED <<parser, eval, printer>>

\* one iteration of the loop of scan_tokens: self.start = self.current; self.scan_token()
ScanToken ==
    /\ status = "scanning"
    /\ ~IsAtEnd(current)
    /\ LET r == ScanTokenResult(current, line)
       IN  /\ start' = current
           /\ current' = r.cur
           /\ line' = r.line
           /\ tokens' = IF r.out = "added"
                         THEN Append(tokens, Token(r.tt, ByteSlice(current, r.cur), r.line))
                         ELSE tokens
           /\ status' = IF r.out \in {"added", "skip"} THEN "scanning" ELSE "panicked"
           /\ reported' = IF r.out = "error" THEN <<Error(r.line, r.msg)>> ELSE reported
           /\ crash' = IF r.out \in {"added", "skip", "error"} THEN crash ELSE r.out
    /\ UNCHANGED <<source, results, calls, parser, eval, printer>>

\* the end of scan_tokens: push EOF and return &self.tokens
ReturnTokens ==
    /\ status = "scanning"
    /\ IsAtEnd(current)
    /\ tokens' = Append(tokens, Token(Plain("EOF"), <<>>, line))
    /\ results' = Append(results, tokens')
    /\ status' = "returned"
    /\ UNCHANGED <<source, start, current, line, reported, crash, calls, parser, eval, printer>>

Next == CallScanTokens \/ ScanToken \/ ReturnTokens

Spec == Init /\ [][Next]_vars

\* the sources of Spec that hold one-byte characters only
InitAscii == InitScanner(Alphabet \ {EAcute}, MaxLen)

SpecAscii == InitAscii /\ [][Next]_vars

InitOps == InitScanner(OpsAlphabet, MaxOpsLen)

SpecOps == InitOps /\ [][Next]_vars

InitNum == InitScanner(NumAlphabet, MaxNumLen)

SpecNum == InitNum /\ [][Next]_vars

InitId == InitScanner(IdAlphabet, MaxIdLen)

SpecId == InitId /\ [][Next]_vars

InitPunct == InitScanner(PunctAlphabet, MaxPunctLen)

SpecPunct == InitPunct /\ [][Next]_vars

InitWs == InitScanner(WsAlphabet, MaxWsLen)

SpecWs == InitWs /\ [][Next]_vars

\* the TokenType of a scanned token: tokens.into_iter().map(|token| token.ty)
TypeOf(tok) == TT(tok.ty, tok.str, tok.num)

\* Parser::new on the token types of a returned scan
ParserNew ==
    /\ status = "returned"
    /\ parser.status = "absent"
    /\ parser' = [NoParser EXCEPT !.tokens = [i \in 1..Len(tokens) |-> TypeOf(tokens[i])],
                                  !.status = "new"]
    /\ UNCHANGED <<source, tokens, start, current, line, status, reported, crash,
                   results, calls, eval, printer>>

\* a call of Parser::expression: the whole descent, to a tree or to a panic
ParseExpression ==
    /\ parser.status = "new"
    /\ \E r \in {Expression(parser.current)} :
           parser' = [parser EXCEPT !.current = r.cur,
                                    !.status = IF r.out = "ok" THEN "returned" ELSE "panicked",
                                    !.expr = r.expr,
                                    !.crash = IF r.out = "ok" THEN "none" ELSE r.out,
                                    !.at = r.at,
                                    !.msg = r.msg]
    /\ UNCHANGED <<source, tokens, start, current, line, status, reported, crash,
                   results, calls, eval, printer>>

\* Parser::new on a token vector as the scanner ends it: a body over A of
\* at most n tokens, then EOF
ParserOver(A, n) ==
    \E k \in 0..n : \E body \in [1..k -> A] :
        parser = [NoParser EXCEPT !.tokens = Append(body, Plain("EOF")), !.status = "new"]

NumberTT(n) == TT("Number", NoStr, <<n, 0>>)

\* an operator of each precedence level, the prefix minus, parentheses
LadderTokens ==
    {NumberTT(1), Plain("LeftParen"), Plain("RightParen"), Plain("Minus"),
     Plain("Plus"), Plain("Star"), Plain("Less"), Plain("EqualEqual")}

\* every operator, every primary token, and tokens that start no expression
VectorTokens ==
    {NumberTT(1), TT("String", <<"a">>, NoNum), TT("Identifier", <<"x">>, NoNum),
     Plain("True"), Plain("False"), Plain("Nil"), Plain("LeftParen"), Plain("RightParen"),
     Plain("Bang"), Plain("Minus"), Plain("Plus"), Plain("Slash"), Plain("Star"),
     Plain("BangEqual"), Plain("EqualEqual"), Plain("Greater"), Plain("GreaterEqual"),
     Plain("Less"), Plain("LessEqual"), Plain("Print"), Plain("Semicolon")}

\* what the scanner returns for the source of test_parse_expr
ExampleTokens ==
    <<NumberTT(1), Plain("Minus"), Plain("LeftParen"), NumberTT(2), Plain("Star"),
      NumberTT(3), Plain("RightParen"), Plain("Less"), NumberTT(4), Plain("EqualEqual"),
      Plain("False"), Plain("EOF")>>

InitParser ==
    /\ InitOver({}, 0)
    /\ \/ ParserOver(LadderTokens, MaxLadderLen)
       \/ ParserOver(VectorTokens, MaxVectorLen)
       \/ parser = [NoParser EXCEPT !.tokens = ExampleTokens, !.status = "new"]
    /\ eval = NoEval
    /\ printer = NoPrinter

NextParser == ParseExpression

SpecParser == InitParser /\ [][NextParser]_vars

\* source texts put together from whole lexemes
Lexemes ==
    {<<"t", "r", "u", "e">>, <<"f", "a", "l", "s", "e">>, <<"n", "i", "l">>,
     <<"1", "2">>, <<Quote, "a", Quote>>, <<"(">>, <<")">>, <<"-">>,
     <<"=", "=">>, <<" ">>}

RECURSIVE Texts(_)
Texts(n) ==
    IF n = 0 THEN {<<>>}
    ELSE Texts(n - 1) \cup {t \o l : t \in Texts(n - 1), l \in Lexemes}

\* the source of test_parse_expr: 1 - (2 * 3) < 4 == false
ExampleSource ==
    <<"1", " ", "-", " ", "(", "2", " ", "*", " ", "3", ")", " ", "<", " ", "4",
      " ", "=", "=", " ", "f", "a", "l", "s", "e">>

\* scanning, then parsing what the scan returned
InitPipeline ==
    /\ InitFrom(Texts(MaxLexemes) \cup {ExampleSource})
    /\ parser = NoParser
    /\ eval = NoEval
    /\ printer = NoPrinter

NextPipeline == CallScanTokens \/ ScanToken \/ ReturnTokens \/ ParserNew \/ ParseExpression

SpecPipeline == InitPipeline /\ [][NextPipeline]_vars

\* the values a Literal holds: numbers, strings, booleans and nil
Values ==
    {NumberTT(n) : n \in -1..MaxNumber}
        \cup {TT("String", s, NoNum) : s \in {<<>>, <<"a">>, <<"b">>}}
        \cup {BoolTT(TRUE), BoolTT(FALSE), NilTT}

Leaves == {LiteralBoxed(v) : v \in Values}

\* the operands of the Binary nodes: literals, bare or in parentheses
Operands == Leaves \cup {GroupingBoxed(e) : e \in Leaves}

PrefixOps == {Plain("Bang"), Plain("Minus")}

InfixOps ==
    {Plain("EqualEqual"), Plain("BangEqual"), Plain("Greater"), Plain("GreaterEqual"),
     Plain("Less"), Plain("LessEqual"), Plain("Minus"), Plain("Plus"), Plain("Slash"),
     Plain("Star")}

\* one operator over operands
Simple ==
    Operands
        \cup {UnaryBoxed(op, e) : op \in PrefixOps, e \in Leaves}
        \cup {BinaryBoxed(l, op, r) : l \in Operands, op \in InfixOps, r \in Operands}

\* the trees visited: one operator, or a prefix operator or parentheses
\* around one
Trees ==
    Simple
        \cup {UnaryBoxed(op, e) : op \in PrefixOps, e \in Simple}
        \cup {GroupingBoxed(e) : e \in Simple}

\* a tree built with the boxed constructors, not yet visited
InitEval ==
    /\ InitOver({}, 0)
    /\ parser = NoParser
    /\ eval \in {[NoEval EXCEPT !.expr = e, !.status = "new"] : e \in Trees}
    /\ printer = NoPrinter

\* a call of visit on the root of the tree
VisitExpr ==
    /\ eval.status = "new"
    /\ eval' = [eval EXCEPT !.status = "returned", !.value = Visit(eval.expr)]
    /\ UNCHANGED <<source, tokens, start, current, line, status, reported, crash,
                   results, calls, parser, printer>>

NextEval == VisitExpr

SpecEval == InitEval /\ [][NextEval]_vars

\* sub-expressions with an operator of their own: three that fail with the
\* type error (-"a", nil + 1, "a" < 1) and three that yield a value (-1,
\* 1 + 1, !nil)
Inners ==
    {UnaryBoxed(Plain("Minus"), LiteralBoxed(TT("String", <<"a">>, NoNum))),
     BinaryBoxed(LiteralBoxed(NilTT), Plain("Plus"), LiteralBoxed(NumberTT(1))),
     BinaryBoxed(LiteralBoxed(TT("String", <<"a">>, NoNum)), Plain("Less"),
                 LiteralBoxed(NumberTT(1))),
     UnaryBoxed(Plain("Minus"), LiteralBoxed(NumberTT(1))),
     BinaryBoxed(LiteralBoxed(NumberTT(1)), Plain("Plus"), LiteralBoxed(NumberTT(1))),
     UnaryBoxed(Plain("Bang"), LiteralBoxed(NilTT))}

\* a Binary with such a sub-expression on the left, on the right, or on
\* both sides
Enclosing ==
    {BinaryBoxed(l, op, r) : l \in Inners, op \in InfixOps, r \in Leaves}
        \cup {BinaryBoxed(l, op, r) : l \in Leaves, op \in InfixOps, r \in Inners}
        \cup {BinaryBoxed(l, op, r) : l \in Inners, op \in InfixOps, r \in Inners}

\* the nested trees visited: those, and a prefix operator or parentheses
\* around them or around a sub-expression
NestedTrees ==
    Enclosing
        \cup {UnaryBoxed(op, e) : op \in PrefixOps, e \in Enclosing \cup Inners}
        \cup {GroupingBoxed(e) : e \in Enclosing \cup Inners}
        \cup {GroupingBoxed(GroupingBoxed(e)) : e \in Inners}

InitNested ==
    /\ InitOver({}, 0)
    /\ parser = NoParser
    /\ eval \in {[NoEval EXCEPT !.expr = e, !.status = "new"] : e \in NestedTrees}
    /\ printer = NoPrinter

SpecNested == InitNested /\ [][NextEval]_vars

\* the literals printed: the numbers 1..MaxPrinted and the string a
PrintLeaves ==
    {LiteralBoxed(NumberTT(n)) : n \in 1..MaxPrinted}
        \cup {LiteralBoxed(TT("String", <<"a">>, NoNum))}

\* one node over literals
PrintSimple ==
    PrintLeaves
        \cup {UnaryBoxed(op, e) : op \in PrefixOps, e \in PrintLeaves}
        \cup {GroupingBoxed(e) : e \in PrintLeaves}
        \cup {BinaryBoxed(l, op, r) :
                 l \in PrintLeaves, op \in {Plain("Minus"), Plain("Star")}, r \in PrintLeaves}

\* the tree of test_print: -123 * (45.67)
PrintExample ==
    BinaryBoxed(UnaryBoxed(Plain("Minus"), LiteralBoxed(NumberTT(123))), Plain("Star"),
                GroupingBoxed(LiteralBoxed(TT("Number", NoStr, <<4567, 2>>))))

\* the trees printed: up to two nodes over literals, nested to the left or
\* to the right
PrintTrees ==
    PrintSimple
        \cup {UnaryBoxed(Plain("Minus"), e) : e \in PrintSimple}
        \cup {GroupingBoxed(e) : e \in PrintSimple}
        \cup {BinaryBoxed(l, Plain("Minus"), r) : l \in PrintSimple, r \in PrintLeaves}
        \cup {BinaryBoxed(l, Plain("Minus"), r) : l \in PrintLeaves, r \in PrintSimple}
        \cup {PrintExample}

\* a tree built with the boxed constructors, not yet printed
InitPrint ==
    /\ InitOver({}, 0)
    /\ parser = NoParser
    /\ eval = NoEval
    /\ printer \in {[NoPrinter EXCEPT !.expr = e, !.status = "new"] : e \in PrintTrees}

\* a call of to_string on the root of the tree
PrintExpr ==
    /\ printer.status = "new"
    /\ printer' = [printer EXCEPT !.status = "printed", !.text = DisplayExpr(printer.expr)]
    /\ UNCHANGED <<source, tokens, start, current, line, status, reported, crash,
                   results, calls, parser, eval>>

NextPrint == PrintExpr

SpecPrint == InitPrint /\ [][NextPrint]_vars

\* a call of Parser::synchronize, in a build with overflow checks or in one
\* without
CallSynchronize ==
    /\ parser.status \in {"new", "returned"}
    /\ \E checked \in BOOLEAN : \E r \in {Synchronize(parser.current, checked)} :
           parser' = [parser EXCEPT !.current = r.cur,
                                    !.status = IF r.out = "ok" THEN "synchronized"
                                               ELSE "panicked",
                                    !.crash = IF r.out = "ok" THEN "none" ELSE r.out]
    /\ UNCHANGED <<source, tokens, start, current, line, status, reported, crash,
                   results, calls, eval, printer>>

\* tokens that end a statement, start one, or do neither
SyncTokens ==
    {Plain("Semicolon"), NumberTT(1), Plain("Plus")} \cup {Plain(ty) : ty \in StatementStarts}

\* a parser over a vector that ends with EOF, its cursor on any token
InitSync ==
    /\ InitOver({}, 0)
    /\ \E k \in 0..MaxSyncLen : \E body \in [1..k -> SyncTokens] : \E c \in 0..k :
           parser = [NoParser EXCEPT !.tokens = Append(body, Plain("EOF")),
                                     !.current = c, !.status = "new"]
    /\ eval = NoEval
    /\ printer = NoPrinter

NextSync == ParseExpression \/ CallSynchronize

SpecSync == InitSync /\ [][NextSync]_vars

TypeOK ==
    /\ status \in {"new", "scanning", "returned", "panicked"}
    /\ 0 <= start /\ start <= current /\ current <= NChars
    /\ Len(reported) <= 1

---------------------------------------------------------------------------
(* Vocabulary of the properties, stated on the source text itself *)

\* the number of newline characters among the first i characters
NewlinesBefore(i) == Cardinality({j \in 1..i : source[j] = NL})

Returned == Len(results) >= 1

\* the kinds of the tokens of a sequence
Kinds(r) == [i \in 1..Len(r) |-> r[i].ty]

\* a step of the scan loop is about to dispatch on character c
Dispatching(c) == status = "scanning" /\ ~IsAtEnd(current) /\ CharsNth(current) = c

EndsWithOneEOF(r) ==
    /\ Len(r) >= 1
    /\ r[Len(r)].ty = "EOF"
    /\ r[Len(r)].lexeme = <<>>
    /\ r[Len(r)].line = line
    /\ \A j \in 1..(Len(r) - 1) : r[j].ty # "EOF"

---------------------------------------------------------------------------
(* C1 *)

\* C1: every token sequence returned by scan_tokens ends with exactly one
\* EOF token: its last element is EOF with an empty lexeme and the final
\* value of the line counter, and no other element is EOF.
C1_EveryResultEndsWithOneEOF ==
    \A i \in 1..Len(results) : EndsWithOneEOF(results[i])

\* What the code does keep: the sequence returned by the first call on a
\* scanner ends with exactly one EOF.
FirstResultEndsWithOneEOF == Returned => EndsWithOneEOF(results[1])

---------------------------------------------------------------------------
(* C2 *)

\* C2: no state survives a scan call: a second call of scan_tokens on the
\* same scanner returns a token sequence equal to the one the first call
\* returned.
C2_SecondCallReturnsSame ==
    Len(results) >= 2 => results[2] = results[1]

\* What the code does: every later call returns the previous sequence with
\* one more EOF token appended.
LaterCallAppendsEOF ==
    \A i \in 2..Len(results) :
        results[i] = Append(results[i - 1], Token(Plain("EOF"), <<>>, line))

---------------------------------------------------------------------------
(* C3 *)

\* C3: in every token sequence returned by scan_tokens the line numbers are
\* monotonically non-decreasing (tokens[i].line <= tokens[j].line for all
\* i < j) and every line is at least 1.
C3_LinesNonDecreasing ==
    \A n \in 1..Len(results) :
        LET r == results[n]
        IN  /\ \A i \in 1..Len(r) : r[i].line >= 1
            /\ \A i \in 1..Len(r) : \A j \in 1..Len(r) :
                   i < j => r[i].line <= r[j].line

\* a returned sequence whose tokens lie on three different lines
C3_Witness ==
    /\ Returned
    /\ Len(results[1]) >= 3
    /\ results[1][1].line < results[1][2].line
    /\ results[1][2].line < results[1][3].line

---------------------------------------------------------------------------
(* C4 *)

UnterminatedReported ==
    reported # <<>> /\ reported[1].message = "Unterminated string."

\* C4: when end of input is reached before the closing quote of a string
\* literal, the unterminated-string error carries the line on which the
\* opening quote appeared, for every string with zero or more embedded
\* newlines.  (When the error is raised, start is the opening quote.)
C4_UnterminatedAtOpeningLine ==
    UnterminatedReported => reported[1].line = 1 + NewlinesBefore(start)

\* What the code does: the error carries the line reached at end of input.
UnterminatedAtLastLine ==
    UnterminatedReported => reported[1].line = 1 + NewlinesBefore(NChars)

---------------------------------------------------------------------------
(* C5 *)

\* the characters scan_token has an arm for, as the specification lists them
Punctuation == {"(", ")", "{", "}", ",", ".", "-", "+", ";", "*", "/", "!", "=", "<", ">"}

Whitespace == {" ", "\r", "\t", NL}

Letters == Lower \cup Upper

IsOtherChar(c) ==
    c \notin Punctuation \cup Whitespace \cup {Quote} \cup Digits \cup Letters \cup {"_", None}

UnexpectedAt(i) == <<Report(1 + NewlinesBefore(i), "", "Unexpected character.")>>

\* C5: a character that is not punctuation, whitespace, a quote, a digit, a
\* letter or underscore, when the scan loop reaches it, makes the scan fail
\* with the unexpected-character error whose line is 1 plus the number of
\* newlines before that character; the call is aborted and returns no token
\* sequence.  No other character raises that error.
C5_UnexpectedCharacter ==
    [][ (status = "scanning" /\ ~IsAtEnd(current)) =>
          /\ IsOtherChar(CharsNth(current)) <=> (reported' = UnexpectedAt(current))
          /\ IsOtherChar(CharsNth(current)) =>
                (status' = "panicked" /\ tokens' = tokens /\ results' = <<>>)
      ]_vars

\* the error raised on the second line, after a token was scanned
C5_Witness ==
    /\ status = "panicked"
    /\ reported = <<Report(2, "", "Unexpected character.")>>
    /\ Len(tokens) >= 1
    /\ results = <<>>

---------------------------------------------------------------------------
(* C6 *)

\* character i+1 of the source (the one at cursor i) exists and is c
CharIs(i, c) == i < NChars /\ source[i + 1] = c

ShortOperator(c) ==
    CASE c = "!" -> "Bang" [] c = "=" -> "Equal" [] c = "<" -> "Less" [] c = ">" -> "Greater"

LongOperator(c) ==
    CASE c = "!" -> "BangEqual" [] c = "=" -> "EqualEqual"
      [] c = "<" -> "LessEqual" [] c = ">" -> "GreaterEqual"

\* C6: maximal munch for operators: whenever !, =, < or > is immediately
\* followed by =, the scanner emits the single two-character token
\* (BangEqual, EqualEqual, LessEqual, GreaterEqual) with a two-character
\* lexeme; otherwise, including at end of input, it emits the one-character
\* token and does not consume the next character.
C6_MaximalMunch ==
    [][ \A c \in {"!", "=", "<", ">"} :
          Dispatching(c) =>
            IF CharIs(current + 1, "=")
            THEN /\ tokens' = Append(tokens, Token(Plain(LongOperator(c)), <<c, "=">>, line))
                 /\ current' = current + 2
            ELSE /\ tokens' = Append(tokens, Token(Plain(ShortOperator(c)), <<c>>, line))
                 /\ current' = current + 1
      ]_vars

\* "<=<" scanned to LessEqual, then Less at end of input
C6_Witness ==
    /\ Returned
    /\ Kinds(results[1]) = <<"LessEqual", "Less", "EOF">>
    /\ results[1][1].lexeme = <<"<", "=">>

---------------------------------------------------------------------------
(* C7 *)

\* the end of the maximal run of digits that starts at cursor i
DigitRunEnd(i) ==
    CHOOSE j \in i..NChars :
        /\ \A k \in (i + 1)..j : source[k] \in Digits
        /\ (j < NChars => source[j + 1] \notin Digits)

\* the end of the numeric literal that starts at cursor i
LiteralEnd(i) ==
    LET e == DigitRunEnd(i)
    IN  IF CharIs(e, ".") /\ e + 1 < NChars /\ source[e + 2] \in Digits
        THEN DigitRunEnd(e + 1)
        ELSE e

\* C7: a numeric literal's lexeme is a maximal digit run, optionally
\* followed by one "." and a non-empty digit run; a "." not followed by a
\* digit (also at end of input) is not part of the number and is scanned as
\* a Dot token: "12." yields Number, Dot and "1.2.3" yields Number(1.2),
\* Dot, Number(3).
C7_NumberLexeme ==
    /\ [][ (status = "scanning" /\ ~IsAtEnd(current) /\ CharsNth(current) \in Digits) =>
             /\ Len(tokens') = Len(tokens) + 1
             /\ tokens'[Len(tokens')].ty = "Number"
             /\ tokens'[Len(tokens')].lexeme = SubSeq(source, current + 1, LiteralEnd(current))
             /\ current' = LiteralEnd(current)
         ]_vars
    /\ [][ Dispatching(".") =>
             /\ tokens' = Append(tokens, Token(Plain("Dot"), <<".">>, line))
             /\ current' = current + 1
         ]_vars
    /\ []((Returned /\ source = <<"1", "2", ".">>) =>
             /\ Kinds(results[1]) = <<"Number", "Dot", "EOF">>
             /\ results[1][1].num = <<12, 0>>)
    /\ []((Returned /\ source = <<"1", ".", "2", ".", "3">>) =>
             /\ Kinds(results[1]) = <<"Number", "Dot", "Number", "EOF">>
             /\ results[1][1].num = <<12, 1>>
             /\ results[1][3].num = <<3, 0>>)

\* "1.2.3" scanned
C7_Witness ==
    /\ Returned
    /\ source = <<"1", ".", "2", ".", "3">>
    /\ results[1][1].lexeme = <<"1", ".", "2">>

---------------------------------------------------------------------------
(* C8 *)

\* the end of the maximal run of letters, digits and underscores from cursor i
WordEnd(i) ==
    CHOOSE j \in i..NChars :
        /\ \A k \in (i + 1)..j : source[k] \in Letters \cup Digits \cup {"_"}
        /\ (j < NChars => source[j + 1] \notin Letters \cup Digits \cup {"_"})

\* the reserved-word table of the specification
ReservedWords == {
    <<(<<"a", "n", "d">>), "And">>,
    <<(<<"o", "r">>), "Or">>,
    <<(<<"t", "r", "u", "e">>), "True">>,
    <<(<<"f", "a", "l", "s", "e">>), "False">>,
    <<(<<"c", "l", "a", "s", "s">>), "Class">>,
    <<(<<"s", "u", "p", "e", "r">>), "Super">>,
    <<(<<"t", "h", "i", "s">>), "This">>,
    <<(<<"v", "a", "r">>), "Var">>,
    <<(<<"f", "u", "n">>), "Fun">>,
    <<(<<"r", "e", "t", "u", "r", "n">>), "Return">>,
    <<(<<"i", "f">>), "If">>,
    <<(<<"e", "l", "s", "e">>), "Else">>,
    <<(<<"w", "h", "i", "l", "e">>), "While">>,
    <<(<<"f", "o", "r">>), "For">>,
    <<(<<"p", "r", "i", "n", "t">>), "Print">> }

\* the token the specification gives a word
WordToken(text) ==
    IF \E p \in ReservedWords : p[1] = text
    THEN Plain((CHOOSE p \in ReservedWords : p[1] = text)[2])
    ELSE TT("Identifier", text, NoNum)

\* C8: an identifier lexeme is the maximal run that starts with a letter or
\* underscore and continues with letters, digits or underscores; it becomes
\* a keyword token exactly when the whole lexeme equals an entry of the
\* reserved-word table, and otherwise an Identifier token carrying the
\* lexeme (a word that merely starts with a keyword is an Identifier).
C8_IdentifierOrKeyword ==
    [][ (status = "scanning" /\ ~IsAtEnd(current)
           /\ CharsNth(current) \in Letters \cup {"_"}) =>
          LET text == SubSeq(source, current + 1, WordEnd(current))
          IN  /\ tokens' = Append(tokens, Token(WordToken(text), text, line))
              /\ current' = WordEnd(current)
      ]_vars

\* a word that starts with the keyword "or" and goes on, scanned to an Identifier
C8_Witness ==
    /\ Returned
    /\ \E i \in 1..Len(results[1]) :
          /\ results[1][i].ty = "Identifier"
          /\ Len(results[1][i].str) = 3
          /\ SubSeq(results[1][i].str, 1, 2) = <<"o", "r">>
          /\ results[1][i].lexeme = results[1][i].str

---------------------------------------------------------------------------
(* C9 *)

\* the end of the comment that starts at cursor i: the next newline, or the
\* end of the source
CommentEnd(i) ==
    CHOOSE j \in (i + 2)..NChars :
        /\ \A k \in (i + 3)..j : source[k] # NL
        /\ (j < NChars => source[j + 1] = NL)

\* C9: "//" starts a comment that consumes every character up to but not
\* including the next newline (or up to end of input) and emits no token;
\* the terminating newline still increments the line counter; a single "/"
\* not followed by "/" is emitted as a Slash token.
C9_LineComment ==
    /\ [][ Dispatching("/") =>
             IF CharIs(current + 1, "/")
             THEN /\ status' = "scanning"
                  /\ tokens' = tokens
                  /\ current' = CommentEnd(current)
                  /\ line' = line
             ELSE /\ tokens' = Append(tokens, Token(Plain("Slash"), <<"/">>, line))
                  /\ current' = current + 1
         ]_vars
    /\ [][ Dispatching(NL) =>
             (status' = "scanning" /\ tokens' = tokens /\ line' = line + 1)
         ]_vars

---------------------------------------------------------------------------
(* C10 *)

\* the cursor of the first quote after the opening quote at cursor i
ClosingQuote(i) ==
    CHOOSE j \in (i + 1)..(NChars - 1) :
        /\ source[j + 1] = Quote
        /\ \A k \in (i + 2)..j : source[k] # Quote

Terminated(i) == \E j \in (i + 1)..(NChars - 1) : source[j + 1] = Quote

\* C10: for every terminated string literal, the emitted String token's
\* lexeme is the source substring including both quotes and its payload is
\* exactly the characters strictly between the quotes.
C10_StringLexemeAndPayload ==
    [][ (Dispatching(Quote) /\ Terminated(current)) =>
          LET q == ClosingQuote(current)
          IN  /\ status' = "scanning"
              /\ Len(tokens') = Len(tokens) + 1
              /\ tokens'[Len(tokens')].ty = "String"
              /\ tokens'[Len(tokens')].lexeme = SubSeq(source, current + 1, q + 1)
              /\ tokens'[Len(tokens')].str = SubSeq(source, current + 2, q)
              /\ current' = q + 1
      ]_vars

---------------------------------------------------------------------------
(* C11 *)

\* the token kind of each punctuation character standing alone
PunctuationKind(c) ==
    CASE c = "(" -> "LeftParen" [] c = ")" -> "RightParen"
      [] c = "{" -> "LeftBrace" [] c = "}" -> "RightBrace"
      [] c = "," -> "Comma" [] c = "." -> "Dot" [] c = "-" -> "Minus"
      [] c = "+" -> "Plus" [] c = ";" -> "Semicolon" [] c = "*" -> "Star"
      [] c = "/" -> "Slash" [] c = "!" -> "Bang" [] c = "=" -> "Equal"
      [] c = "<" -> "Less" [] c = ">" -> "Greater"

NoPairs ==
    \A i \in 1..(NChars - 1) :
        /\ ~(source[i] \in {"!", "=", "<", ">"} /\ source[i + 1] = "=")
        /\ ~(source[i] = "/" /\ source[i + 1] = "/")

---------------------------------------------------------------------------
(* C12 *)

\* the number of characters of the source before byte offset b
CharsBefore(b) == Cardinality({i \in 1..NChars : ByteOff(i) <= b})

\* C12: space, tab and carriage return emit no token and leave the line
\* counter unchanged; a newline emits no token and increments the line
\* counter by one; every emitted token's line equals 1 plus the number of
\* newline characters in the source before the end of that token's lexeme.
C12_WhitespaceAndLines ==
    [][ /\ \A c \in {" ", "\t", "\r"} :
              Dispatching(c) =>
                  tokens' = tokens /\ line' = line /\ current' = current + 1
        /\ Dispatching(NL) =>
              tokens' = tokens /\ line' = line + 1 /\ current' = current + 1
        /\ (status = "scanning" /\ Len(tokens') > Len(tokens) /\ status' = "scanning") =>
              tokens'[Len(tokens')].line = 1 + NewlinesBefore(CharsBefore(current'))
      ]_vars

\* a tab, a carriage return and a newline, then a semicolon on line 2
C12_Witness ==
    /\ Returned
    /\ source = <<"\t", "\r", NL, ";">>
    /\ Kinds(results[1]) = <<"Semicolon", "EOF">>
    /\ results[1][1].line = 2

---------------------------------------------------------------------------
(* C13 *)

\* the precedence level of a binary operator, lowest first
Level(op) ==
    CASE op.ty \in {"EqualEqual", "BangEqual"} -> 1
      [] op.ty \in {"Greater", "GreaterEqual", "Less", "LessEqual"} -> 2
      [] op.ty \in {"Minus", "Plus"} -> 3
      [] op.ty \in {"Slash", "Star"} -> 4

BinaryOperators ==
    {"EqualEqual", "BangEqual", "Greater", "GreaterEqual", "Less", "LessEqual",
     "Minus", "Plus", "Slash", "Star"}

IsOperand(tt) == tt.ty \in {"Number", "String"}

\* the tokens are  a op1 b op2 c EOF  with operands a, b, c
Chain ==
    /\ Len(parser.tokens) = 6
    /\ \A i \in {1, 3, 5} : IsOperand(parser.tokens[i])
    /\ \A i \in {2, 4} : parser.tokens[i].ty \in BinaryOperators

\* the tokens are  p1 p2 a EOF  with prefix operators p1, p2 and operand a
Prefixes ==
    /\ Len(parser.tokens) = 4
    /\ \A i \in {1, 2} : parser.tokens[i].ty \in {"Bang", "Minus"}
    /\ IsOperand(parser.tokens[3])

Parsed == parser.status \in {"returned", "panicked"}

ExamplePrinted ==
    <<"(", "=", "=", " ", "(", "<", " ", "(", "-", " ", "1", " ", "(", "g", "r", "o",
      "u", "p", " ", "(", "*", " ", "2", " ", "3", ")", ")", ")", " ", "4", ")", " ",
      "f", "a", "l", "s", "e", ")">>

\* C13: Parser::expression builds left-associative trees ordered by the
\* precedence equality < comparison < term < factor < unary < primary: for
\* a op1 b op2 c the tree is Binary(Binary(a, op1, b), op2, c) when op2 is on
\* the level of op1 (or a lower one), and Binary(a, op1, Binary(b, op2, c))
\* when op2 binds tighter; prefix ! and - nest to the right; and the tokens
\* of  1 - (2 * 3) < 4 == false  parse to a tree that prints as
\* (== (< (- 1 (group (* 2 3))) 4) false).
C13_PrecedenceLadder ==
    Parsed =>
        LET t == parser.tokens
            lit(i) == LiteralBoxed(t[i])
        IN  /\ Chain =>
                /\ parser.status = "returned"
                /\ parser.current = 5
                /\ parser.expr =
                      IF Level(t[2]) >= Level(t[4])
                      THEN BinaryBoxed(BinaryBoxed(lit(1), t[2], lit(3)), t[4], lit(5))
                      ELSE BinaryBoxed(lit(1), t[2], BinaryBoxed(lit(3), t[4], lit(5)))
            /\ Prefixes =>
                /\ parser.status = "returned"
                /\ parser.expr = UnaryBoxed(t[1], UnaryBoxed(t[2], lit(3)))
            /\ t = ExampleTokens =>
                /\ parser.status = "returned"
                /\ DisplayExpr(parser.expr) = ExamplePrinted

\* 1 - 1 + 1 parsed to the left-nested tree, a chain of two operators of
\* the term level
C13_Witness ==
    /\ parser.status = "returned"
    /\ Chain
    /\ parser.tokens[2] = Plain("Minus") /\ parser.tokens[4] = Plain("Plus")
    /\ parser.expr.kids[1].kind = "Binary"

---------------------------------------------------------------------------
(* C14 *)

\* node e by itself: its operator is one the grammar has at that place, and
\* a Binary holds no Binary of the same or a lower level as its right child
\* and none of a lower level as its left child
NodeShaped(e) ==
    /\ e.kind \in {"Literal", "Grouping", "Unary", "Binary"}
    /\ e.kind = "Unary" => e.tt.ty \in {"Bang", "Minus"}
    /\ e.kind = "Binary" =>
          /\ e.tt.ty \in BinaryOperators
          /\ Len(e.kids) = 2
          /\ e.kids[2].kind = "Binary" => Level(e.kids[2].tt) > Level(e.tt)
          /\ e.kids[1].kind = "Binary" => Level(e.kids[1].tt) >= Level(e.tt)

RECURSIVE TreeShaped(_)
TreeShaped(e) == NodeShaped(e) /\ \A i \in 1..Len(e.kids) : TreeShaped(e.kids[i])

\* C14: in every tree the parser returns, each Binary operator is one of
\* == != > >= < <= + - * / and each Unary operator is ! or -; a Binary node
\* never has as its direct (non-Grouping) right child a Binary node of the
\* same or a lower precedence level, nor as its direct left child a Binary
\* node of a lower level.
C14_TreesAreShaped == parser.status = "returned" => TreeShaped(parser.expr)

\* 1 + 1 * 1: the right child of the sum is the product
C14_Witness ==
    /\ parser.status = "returned"
    /\ parser.expr.kind = "Binary" /\ parser.expr.tt = Plain("Plus")
    /\ parser.expr.kids[2].kind = "Binary" /\ parser.expr.kids[2].tt = Plain("Star")

---------------------------------------------------------------------------
(* C15 *)

\* the tokens begin with ( and a complete expression of n tokens, an operand
\* or operand-operator-operand, and token n + 2 neither continues the
\* expression nor is )
UnclosedAfter(n) ==
    LET t == parser.tokens
    IN  /\ Len(t) >= n + 2
        /\ t[1] = Plain("LeftParen")
        /\ n \in {1, 3}
        /\ \A i \in {2, n + 1} : IsOperand(t[i]) \/ t[i].ty \in {"True", "False", "Nil"}
        /\ n = 3 => t[3].ty \in BinaryOperators
        /\ t[n + 2].ty \notin BinaryOperators \cup {"RightParen"}

\* C15: when ( and a complete inner expression are not followed by ), the
\* next token being anything else, EOF included, as in (1 + 2, parsing fails
\* with the error of consume, whose message names ) and which carries the
\* offending token, the one at the cursor; no tree is returned.
C15_MissingRightParen ==
    \A n \in {1, 3} :
        (Parsed /\ UnclosedAfter(n)) =>
            /\ parser.status = "panicked"
            /\ parser.crash = "parser error"
            /\ parser.msg = "Expect ')' after expression."
            /\ parser.current = n + 1
            /\ parser.at = parser.tokens[n + 2]
            /\ parser.expr = NoExpr

\* ( 1 + 1 and then the end of input
C15_Witness ==
    /\ parser.status = "panicked"
    /\ parser.tokens = <<Plain("LeftParen"), NumberTT(1), Plain("Plus"), NumberTT(1), Plain("EOF")>>
    /\ parser.at = Plain("EOF")

---------------------------------------------------------------------------
(* C16 *)

\* the tokens that start a primary production, and the prefix operators,
\* which unary consumes before primary is entered
StartsPrimary(tt) ==
    tt.ty \in {"False", "True", "Nil", "Number", "String", "LeftParen", "Bang", "Minus"}

\* primary is entered at token k: at the start, after a prefix operator or
\* (, or after an operand and a binary operator
PrimaryEnteredAt(k) ==
    LET t == parser.tokens
    IN  /\ k <= Len(t)
        /\ \/ k = 1
           \/ k = 2 /\ t[1].ty \in {"Bang", "Minus", "LeftParen"}
           \/ k = 3 /\ IsOperand(t[1]) /\ t[2].ty \in BinaryOperators

\* C16: whenever primary is entered with a current token that starts no
\* primary production (an operator, ), an identifier, a statement keyword,
\* or EOF on empty or truncated input such as 1 +), parsing fails with the
\* UnexpectedExpression parse error, an error raised by Parser::error like
\* the one for a missing ), rather than any other outcome.
C16_UnexpectedExpression ==
    \A k \in 1..3 :
        (Parsed /\ PrimaryEnteredAt(k) /\ ~StartsPrimary(parser.tokens[k])) =>
            /\ parser.status = "panicked"
            /\ parser.crash = "parser error"

\* what the code does there: it panics in unreachable!, with the cursor on
\* the token and no tree
PrimaryFallsThrough ==
    \A k \in 1..3 :
        (Parsed /\ PrimaryEnteredAt(k) /\ ~StartsPrimary(parser.tokens[k])) =>
            /\ parser.status = "panicked"
            /\ parser.crash = "unreachable"
            /\ parser.current = k - 1
            /\ parser.expr = NoExpr

---------------------------------------------------------------------------
(* C17 *)

\* the source is the one lexeme text, and what it scanned to was parsed
ParsedFrom(text) == source = text /\ Parsed

\* C17: scanning and then parsing true, false and nil yields a Literal
\* holding Bool(true), Bool(false) and Nil; a number token and a string
\* token yield a Literal holding the token's payload.
C17_LiteralsFromSource ==
    /\ ParsedFrom(<<"t", "r", "u", "e">>) =>
          parser.status = "returned" /\ parser.expr = LiteralBoxed(BoolTT(TRUE))
    /\ ParsedFrom(<<"f", "a", "l", "s", "e">>) =>
          parser.status = "returned" /\ parser.expr = LiteralBoxed(BoolTT(FALSE))
    /\ ParsedFrom(<<"n", "i", "l">>) =>
          parser.status = "returned" /\ parser.expr = LiteralBoxed(NilTT)
    /\ ParsedFrom(<<"1", "2">>) =>
          parser.status = "returned" /\ parser.expr = LiteralBoxed(NumberTT(12))
    /\ ParsedFrom(<<Quote, "a", Quote>>) =>
          /\ parser.status = "returned"
          /\ parser.expr = LiteralBoxed(TT("String", <<"a">>, NoNum))

\* what the code does: all but nil, which scans to an identifier and makes
\* primary panic in unreachable!
LiteralsButNil ==
    /\ ParsedFrom(<<"t", "r", "u", "e">>) =>
          parser.status = "returned" /\ parser.expr = LiteralBoxed(BoolTT(TRUE))
    /\ ParsedFrom(<<"f", "a", "l", "s", "e">>) =>
          parser.status = "returned" /\ parser.expr = LiteralBoxed(BoolTT(FALSE))
    /\ ParsedFrom(<<"n", "i", "l">>) =>
          /\ parser.tokens[1] = TT("Identifier", <<"n", "i", "l">>, NoNum)
          /\ parser.status = "panicked" /\ parser.crash = "unreachable"
    /\ ParsedFrom(<<"1", "2">>) =>
          parser.status = "returned" /\ parser.expr = LiteralBoxed(NumberTT(12))
    /\ ParsedFrom(<<Quote, "a", Quote>>) =>
          /\ parser.status = "returned"
          /\ parser.expr = LiteralBoxed(TT("String", <<"a">>, NoNum))

---------------------------------------------------------------------------
(* C18 *)

Visited == eval.status = "returned"

\* the root of the visited tree is a Binary with an operator among ops
RootBinary(ops) == eval.expr.kind = "Binary" /\ eval.expr.tt.ty \in ops

RootUnary(op) == eval.expr.kind = "Unary" /\ eval.expr.tt.ty = op

\* the value of an operand of a Binary: the literal it is or holds in
\* parentheses
Held(e) == IF e.kind = "Literal" THEN e.tt ELSE e.kids[1].tt

Left == Held(eval.expr.kids[1])

Right == Held(eval.expr.kids[2])

\* a Number literal of the trees is the integer n, held as <<n, 0>>
IntOf(v) == v.num[1]

\* C18: binary + is overloaded by operand type: Number + Number yields the
\* Number sum, String + String yields the concatenation, left operand then
\* right operand, and every other pairing (Bool + Number, String + Number,
\* Nil + Nil, ...) fails with the type error, the None of visit.
C18_PlusByOperandType ==
    (Visited /\ RootBinary({"Plus"})) =>
        IF Left.ty = "Number" /\ Right.ty = "Number"
        THEN eval.value = NumberTT(IntOf(Left) + IntOf(Right))
        ELSE IF Left.ty = "String" /\ Right.ty = "String"
        THEN eval.value = TT("String", Left.str \o Right.str, NoNum)
        ELSE eval.value = NoneTT

\* "a" + ("b") visited to "ab"
C18_Witness ==
    /\ Visited
    /\ eval.expr = BinaryBoxed(LiteralBoxed(TT("String", <<"a">>, NoNum)), Plain("Plus"),
                               GroupingBoxed(LiteralBoxed(TT("String", <<"b">>, NoNum))))
    /\ eval.value = TT("String", <<"a", "b">>, NoNum)

---------------------------------------------------------------------------
(* C19 *)

\* the value visit yields for the operand of a Unary
Operand == Visit(eval.expr.kids[1])

\* C19: the numeric-only operators fail with the type error unless every
\* operand is a Number: unary - on a non-Number, and binary - / * > >= < <=
\* with a non-Number operand, yield the error outcome, the None of visit;
\* with Number operands the arithmetic operators yield a Number (the
\* negation, the difference, the product, a quotient) and the comparisons
\* yield the Bool of the comparison.
C19_NumericOperators ==
    /\ (Visited /\ RootUnary("Minus")) =>
          IF Operand.ty = "Number"
          THEN /\ eval.value.ty = "Number"
               /\ Operand \in Values => eval.value = NumberTT(-IntOf(Operand))
          ELSE eval.value = NoneTT
    /\ (Visited /\ RootBinary({"Minus", "Slash", "Star", "Greater", "GreaterEqual",
                               "Less", "LessEqual"})) =>
          IF Left.ty = "Number" /\ Right.ty = "Number"
          THEN LET op == eval.expr.tt.ty
                   l == IntOf(Left)
                   r == IntOf(Right)
               IN  CASE op = "Minus" -> eval.value = NumberTT(l - r)
                     [] op = "Star" -> eval.value = NumberTT(l * r)
                     [] op = "Slash" -> eval.value.ty = "Number"
                     [] op = "Greater" -> eval.value = BoolTT(l > r)
                     [] op = "GreaterEqual" -> eval.value = BoolTT(l >= r)
                     [] op = "Less" -> eval.value = BoolTT(l < r)
                     [] op = "LessEqual" -> eval.value = BoolTT(l <= r)
          ELSE eval.value = NoneTT

\* nil - 1 visited to None
C19_Witness ==
    /\ Visited
    /\ eval.expr = BinaryBoxed(LiteralBoxed(NilTT), Plain("Minus"), LiteralBoxed(NumberTT(1)))
    /\ eval.value = NoneTT

---------------------------------------------------------------------------
(* C20 *)

\* C20: unary ! on any successfully evaluated operand yields
\* Bool(not truthy(v)), where truthy is false exactly for Nil and
\* Bool(false) and true for every other value, Number(0) and the empty
\* String included; it never yields the type error.
C20_BangNegatesTruthiness ==
    (Visited /\ RootUnary("Bang") /\ Operand # NoneTT) =>
        eval.value = BoolTT(Operand \in {NilTT, BoolTT(FALSE)})

\* !0 visited to Bool(false)
C20_Witness ==
    /\ Visited
    /\ eval.expr = UnaryBoxed(Plain("Bang"), LiteralBoxed(NumberTT(0)))
    /\ eval.value = BoolTT(FALSE)

---------------------------------------------------------------------------
(* C21 *)

\* the same kind and the same content
SameValue(l, r) == l.ty = r.ty /\ l.str = r.str /\ l.num = r.num

\* C21: equality is total and type-discriminating: for every pair of values
\* (Number, String, Bool, Nil) == yields a Bool and never the error
\* outcome; the Bool is true exactly when both values have the same kind
\* and the same content (Nil equals only Nil, Number(0) is not Bool(false)),
\* and != yields the negation of ==.
C21_EqualityIsTotal ==
    /\ (Visited /\ RootBinary({"EqualEqual"})) =>
          eval.value = BoolTT(SameValue(Left, Right))
    /\ (Visited /\ RootBinary({"BangEqual"})) =>
          eval.value = BoolTT(~SameValue(Left, Right))

\* 0 == false visited to Bool(false)
C21_Witness ==
    /\ Visited
    /\ eval.expr = BinaryBoxed(LiteralBoxed(NumberTT(0)), Plain("EqualEqual"),
                               LiteralBoxed(BoolTT(FALSE)))
    /\ eval.value = BoolTT(FALSE)

---------------------------------------------------------------------------
(* C22 *)

\* what the panic of the parser is raised with: Parser::error formats the
\* offending token type and the message, unreachable! a fixed text
ParserErrorOutcome == [kind |-> parser.crash, at |-> parser.at, msg |-> parser.msg]

\* the line an error outcome carries, 0 when it carries none
LineOf(e) == IF "line" \in DOMAIN e THEN e.line ELSE 0

\* C22: every error outcome of scanning, parsing and evaluation carries its
\* kind, a message and the 1-based source line where it originated; in
\* particular a parser error (missing `)`, unexpected token) and an
\* evaluator type error each identify a line.
C22_ErrorsCarryLine ==
    /\ \A i \in 1..Len(reported) : LineOf(reported[i]) >= 1 /\ reported[i].message # ""
    /\ parser.status = "panicked" =>
          /\ ParserErrorOutcome.msg # ""
          /\ LineOf(ParserErrorOutcome) = results[1][parser.current + 1].line
    /\ (eval.status = "returned" /\ eval.value = NoneTT) => LineOf(eval.value) >= 1

\* the panic of the parser on the source `(12`: raised at EOF with the
\* message of the missing `)`, and nothing else
MissingParenCarriesNoLine ==
    (parser.status = "panicked" /\ source = <<"(", "1", "2">>) =>
        ParserErrorOutcome =
            [kind |-> "parser error", at |-> Plain("EOF"),
             msg |-> "Expect ')' after expression."]

---------------------------------------------------------------------------
(* C23 *)

\* the line printed for a reported error
Printed(r) == Eprintln(r.line, r.where_, r.message)

\* C23: a reported error is rendered as `[line <N>] Error<location>:
\* <message>`: the location string follows `Error` immediately, so with an
\* empty location the output is `[line N] Error: message`.
C23_ReportRendering ==
    \A i \in 1..Len(reported) :
        Printed(reported[i]) =
            <<"[", "l", "i", "n", "e", " ">> \o NatToString(reported[i].line) \o <<"]", " ", "E", "r", "r", "o", "r">>
                \o CharsOf(reported[i].where_) \o <<":", " ">> \o CharsOf(reported[i].message)

\* what is printed for the source `@`: a space stands between Error and
\* the colon
SpaceBeforeColon ==
    (source = <<"@">> /\ reported # <<>>) =>
        Printed(reported[1]) =
            <<"[", "l", "i", "n", "e", " ", "1", "]", " ", "E", "r", "r", "o", "r", " ", ":", " ", "U", "n", "e", "x", "p", "e", "c", "t", "e", "d", " ", "c", "h", "a", "r", "a", "c", "t", "e", "r", ".">>

---------------------------------------------------------------------------
(* C24 *)

\* the literals of a tree, left to right
RECURSIVE Fringe(_)
Fringe(e) ==
    CASE e.kind = "Literal" -> <<e.tt>>
      [] e.kind \in {"Grouping", "Unary"} -> Fringe(e.kids[1])
      [] e.kind = "Binary" -> Fringe(e.kids[1]) \o Fringe(e.kids[2])

\* the operators of the printed trees, as they are written
OperatorText(op) ==
    CASE op.ty = "Minus" -> <<"-">>
      [] op.ty = "Star" -> <<"*">>
      [] op.ty = "Bang" -> <<"!">>

\* C24: printing a tree yields a fully parenthesized prefix string defined
\* recursively: a Literal prints its value, a Grouping prints
\* (group <child>), a Unary prints (<op> <child>) and a Binary prints
\* (<op> <left> <right>); hence two trees built from the same literals with
\* different shapes (such as (1-2)-3 and 1-(2-3), without Grouping) print
\* to different strings.
C24_PrefixPrinting ==
    printer.status = "printed" =>
        LET e == printer.expr
            child(i) == DisplayExpr(e.kids[i])
        IN  /\ (e.kind = "Literal" /\ e.tt.ty = "String") => printer.text = e.tt.str
            /\ (e.kind = "Literal" /\ e.tt.ty = "Number") =>
                   printer.text = NatToString(IntOf(e.tt))
            /\ e.kind = "Grouping" =>
                   printer.text = <<"(", "g", "r", "o", "u", "p", " ">> \o child(1) \o <<")">>
            /\ e.kind = "Unary" =>
                   printer.text = <<"(">> \o OperatorText(e.tt) \o <<" ">> \o child(1) \o <<")">>
            /\ e.kind = "Binary" =>
                   printer.text = <<"(">> \o OperatorText(e.tt) \o <<" ">> \o child(1)
                                      \o <<" ">> \o child(2) \o <<")">>
            /\ e = PrintExample =>
                   printer.text = <<"(", "*", " ", "(", "-", " ", "1", "2", "3", ")", " ", "(", "g", "r", "o", "u", "p", " ", "4", "5", ".", "6", "7", ")", ")">>
            /\ \A t \in PrintTrees :
                   (Fringe(t) = Fringe(e) /\ t # e) => DisplayExpr(t) # printer.text

\* (1 - 2) - 3 without Grouping, printed as (- (- 1 2) 3), while 1 - (2 - 3)
\* prints as (- 1 (- 2 3))
C24_Witness ==
    /\ printer.status = "printed"
    /\ printer.expr = BinaryBoxed(BinaryBoxed(LiteralBoxed(NumberTT(1)), Plain("Minus"),
                                              LiteralBoxed(NumberTT(2))),
                                  Plain("Minus"), LiteralBoxed(NumberTT(3)))
    /\ printer.text = <<"(", "-", " ", "(", "-", " ", "1", " ", "2", ")", " ", "3", ")">>
    /\ DisplayExpr(BinaryBoxed(LiteralBoxed(NumberTT(1)), Plain("Minus"),
                               BinaryBoxed(LiteralBoxed(NumberTT(2)), Plain("Minus"),
                                           LiteralBoxed(NumberTT(3)))))
           = <<"(", "-", " ", "1", " ", "(", "-", " ", "2", " ", "3", ")", ")">>

---------------------------------------------------------------------------
(* C25 *)

\* the step is a call of synchronize
SynchronizeStep ==
    /\ parser.status \in {"new", "returned"}
    /\ parser'.status = "synchronized" \/ parser'.crash = "overflow"

\* with the cursor at p the previously consumed token is `;`, or the
\* current token starts a statement or is EOF
StopsAt(p) ==
    \/ p >= 1 /\ parser.tokens[p] = Plain("Semicolon")
    \/ parser.tokens[p + 1].ty \in StatementStarts \cup {"EOF"}

\* the earliest such position after the token at c, or c when that is EOF
EarliestStop(c) ==
    IF parser.tokens[c + 1] = Plain("EOF") THEN c
    ELSE CHOOSE p \in c + 1..Len(parser.tokens) - 1 :
             StopsAt(p) /\ \A q \in c + 1..p - 1 : ~StopsAt(q)

\* C25: Parser::synchronize, called at any cursor position of a token
\* sequence that ends with EOF, terminates, and on return the cursor is at
\* the earliest position after the discarded offending token where the
\* previously consumed token is `;` or the current token is one of class,
\* fun, var, for, if, while, print, return, or else is at EOF; it never
\* moves the cursor past EOF.
C25_SynchronizeStops ==
    [][SynchronizeStep =>
          /\ parser'.status = "synchronized"
          /\ parser'.current = EarliestStop(parser.current)
          /\ parser'.current <= Len(parser.tokens) - 1]_vars

\* apart from the call at cursor 0 on a first token EOF, in a build with
\* overflow checks, every call returns, and at that position
SynchronizeStopsUnlessOverflow ==
    [][SynchronizeStep =>
          \/ /\ parser'.status = "synchronized"
             /\ parser'.current = EarliestStop(parser.current)
             /\ parser'.current <= Len(parser.tokens) - 1
          \/ /\ parser'.crash = "overflow"
             /\ parser.current = 0
             /\ parser.tokens[1] = Plain("EOF")]_vars

---------------------------------------------------------------------------
(* C26 *)

\* C26: the parser cursor never decreases, and every read of previous (in
\* expression parsing, advance and synchronize) happens with cursor >= 1, so
\* that it reads the existing token at cursor-1; in particular this holds
\* when advance or synchronize is invoked with the cursor at 0 on a sequence
\* whose first token is EOF.
C26_PreviousReadsAToken ==
    [][/\ parser'.current >= parser.current
       /\ parser'.crash # "overflow"
       /\ SynchronizeStep => ParserAdvance(parser.current) >= 1]_vars

\* the cursor alone never decreases
CursorNeverDecreases == [][parser'.current >= parser.current]_vars

---------------------------------------------------------------------------
(* C27 *)

\* C27: scan_tokens terminates on every finite source: the invariant
\* 0 <= start <= current <= length(source) holds in every state, advance is
\* never executed with current = length(source), and each iteration of the
\* main loop either aborts with an error or increases current by at least
\* one.
C27_ScanTerminates ==
    [][/\ 0 <= start /\ start <= current /\ current <= NChars
       /\ 0 <= start' /\ start' <= current' /\ current' <= NChars
       /\ (status = "scanning" /\ ~IsAtEnd(current)) => current < NChars
       /\ (status = "scanning" /\ ~IsAtEnd(current) /\ status' = "scanning") =>
              current' >= current + 1]_vars

\* scan_token entered with the cursor past the last character, which
\* advance then unwraps: the source is a comment that holds a two-byte
\* character and ends with a newline
AdvancePastLastCharacter ==
    (source = <<"/", "/", EAcute, NL>> /\ current = 4) =>
        /\ NChars = 4 /\ ByteLen = 5
        /\ status = "panicked" => crash = "unwrap"

---------------------------------------------------------------------------
(* C28 *)

\* the end of the line that holds the character after position i
RECURSIVE EndOfLine(_)
EndOfLine(i) ==
    IF i >= Len(source) \/ source[i + 1] = NL THEN i ELSE EndOfLine(i + 1)

\* the position after the spaces, tabs, carriage returns, newlines and //
\* comments that start at position i
RECURSIVE SkipGap(_)
SkipGap(i) ==
    IF i >= Len(source) THEN i
    ELSE IF source[i + 1] \in {" ", "\t", "\r", NL} THEN SkipGap(i + 1)
    ELSE IF i + 1 < Len(source) /\ source[i + 1] = "/" /\ source[i + 2] = "/"
    THEN SkipGap(EndOfLine(i))
    ELSE i

\* from position i on the source is the lexemes of toks in order, each a
\* contiguous span, with nothing but such gaps before, between and after
RECURSIVE Covers(_, _)
Covers(toks, i) ==
    \E p \in {SkipGap(i)} :
        IF toks = <<>> THEN p = Len(source)
        ELSE \E n \in {Len(Head(toks).lexeme)} :
                 /\ n >= 1
                 /\ p + n <= Len(source)
                 /\ SubSeq(source, p + 1, p + n) = Head(toks).lexeme
                 /\ Covers(Tail(toks), p + n)

NonEOF(toks) == SelectSeq(toks, LAMBDA t : t.ty # "EOF")

\* C28: in a successful scan, every non-EOF token's lexeme is the
\* contiguous source substring it was scanned from, the spans are pairwise
\* disjoint and in source order, and every source character outside all
\* spans is a space, tab, carriage return, newline or part of a // comment.
C28_LexemesCoverTheSource ==
    \A i \in 1..Len(results) : Covers(NonEOF(results[i]), 0)

\* the source `;/` followed by `/1`: one token with the lexeme `;`, the rest
\* a comment
C28_Witness ==
    /\ source = <<";", "/", "/", "1">>
    /\ Len(results) >= 1
    /\ Len(results[1]) = 2
    /\ results[1][1].lexeme = <<";">>

---------------------------------------------------------------------------
(* C29 *)

\* visiting some sub-expression of e, at any depth, fails
RECURSIVE SomePartFails(_)
SomePartFails(e) ==
    \E i \in 1..Len(e.kids) : Visit(e.kids[i]) = NoneTT \/ SomePartFails(e.kids[i])

\* C29: evaluation is bottom-up and errors propagate to the root: if
\* evaluating any sub-expression fails, evaluating the whole tree fails,
\* whatever the enclosing operators are, Grouping, unary ! and binary == and
\* != included; both operands of a Binary node are always evaluated, with
\* no short-circuit.
C29_ErrorsPropagate ==
    (Visited /\ SomePartFails(eval.expr)) => eval.value = NoneTT

\* true == (!(-"a")): the failure of the innermost operand, on the right of
\* ==, under ! and parentheses, fails the whole tree
C29_Witness ==
    /\ Visited
    /\ eval.expr.kind = "Unary"
    /\ eval.expr.tt = Plain("Bang")
    /\ eval.expr.kids[1] =
           BinaryBoxed(LiteralBoxed(BoolTT(TRUE)), Plain("EqualEqual"),
                       UnaryBoxed(Plain("Minus"), LiteralBoxed(TT("String", <<"a">>, NoNum))))
    /\ eval.value = NoneTT

---------------------------------------------------------------------------
(* C30 *)

\* the tokens after the first i up to the j-th form an expression, by the
\* grammar alone: a literal, a prefix operator before an expression, an
\* expression in parentheses, or two expressions around a binary operator
RECURSIVE Forms(_, _)
Forms(i, j) ==
    LET t == parser.tokens
    IN  \/ j = i + 1 /\ t[j].ty \in {"False", "True", "Nil", "Number", "String"}
        \/ j > i + 1 /\ t[i + 1].ty \in {"Bang", "Minus"} /\ Forms(i + 1, j)
        \/ j > i + 2 /\ t[i + 1].ty = "LeftParen" /\ t[j].ty = "RightParen"
              /\ Forms(i + 1, j - 1)
        \/ \E k \in i + 1..j - 2 :
              t[k + 1].ty \in BinaryOperators /\ Forms(i, k) /\ Forms(k + 1, j)

\* C30: Parser::expression consumes only the longest token prefix that
\* forms an expression and never consumes EOF: it returns a tree without
\* error even when tokens other than EOF remain unconsumed (1 2 or 1 ;
\* returns Literal 1 with the cursor left on the second token).
C30_LongestPrefix ==
    parser.status = "returned" =>
        /\ parser.current <= Len(parser.tokens) - 1
        /\ \A k \in 1..parser.current : parser.tokens[k] # Plain("EOF")
        /\ Forms(0, parser.current)
        /\ \A c \in parser.current + 1..Len(parser.tokens) - 1 : ~Forms(0, c)
        /\ parser.tokens \in {<<NumberTT(1), NumberTT(1), Plain("EOF")>>,
                              <<NumberTT(1), Plain("Semicolon"), Plain("EOF")>>} =>
               parser.expr = LiteralBoxed(NumberTT(1)) /\ parser.current = 1

\* 1 ; parsed to Literal 1, the cursor left on the ;
C30_Witness ==
    /\ parser.status = "returned"
    /\ parser.tokens = <<NumberTT(1), Plain("Semicolon"), Plain("EOF")>>
    /\ parser.expr = LiteralBoxed(NumberTT(1))
    /\ parser.current = 1

====
